---- MODULE Spec2Model ----
(***************************************************************************)
(* Visual similarity scoring of Word vs SuperDoc page renders              *)
(* (src/src/superdoc_benchmark/compare/score.py), the SuperDoc config      *)
(* file (superdoc/config.py), the upload of Word baselines to R2           *)
(* (baselines/r2_upload.py) and the report generation of run_compare       *)
(* (main.py).                                                              *)
(*                                                                         *)
(* Python floats are modelled as exact rationals [n, d] in lowest terms    *)
(* with d > 0, so that equal values are equal records.  The measurements   *)
(* that score.py obtains from numpy / scipy / scikit-image (SSIM, Otsu     *)
(* ink masks, Canny edges, CIEDE2000, distance transforms) are inputs of   *)
(* the model: a "raw" bundle holds what those calls return for one image   *)
(* pair, and everything score.py itself computes from them is translated.  *)
(*                                                                         *)
(* Ten specifications share the module:                                    *)
(*   Spec         score_document over lists of page files                  *)
(*   SpecPage     _score_page on one measured page pair                    *)
(*   SpecWeights  ScoreWeights.normalized and its use in _compute_metrics  *)
(*   SpecTwice    score_document called twice by one process               *)
(*   SpecPixels   the scoring functions applied to small page images       *)
(*   SpecAlign    _align_images applied to a small page image              *)
(*   SpecRows     the row mapping of _vertical_map_from_ink                *)
(*   SpecConfig   the calls of superdoc/config.py on the config file       *)
(*   SpecUpload   upload_word_baseline_capture against an R2 bucket        *)
(*   SpecCompare  the report generation of run_compare                     *)
(***************************************************************************)
EXTENDS Integers, Sequences, FiniteSets, TLC

VARIABLES
    \* score_document
    word_pages, superdoc_pages, config, pc, idx, pages,
    total_weight, weighted_sum, weighted_sum_strict, weighted_sum_drift,
    result, error, loaded,
    \* the inputs and outcome of an earlier score_document call
    prev,
    \* _score_page
    sp_config, sp_in, sp_out, sp_calls,
    \* ScoreWeights.normalized / _compute_metrics
    w_in, w_raw, w_out, w_metrics, w_k, w_scaled,
    \* one function of score.py applied to a pair of small page images
    px_word, px_sd, px_config, px_res,
    \* _align_images applied to a small page image
    al_mov, al_config, al_res,
    \* _vertical_map_from_ink applied to the row projections of two ink masks
    vm_word, vm_sd, vm_config, vm_round, vm_res,
    \* the SuperDoc configuration file and the calls of superdoc/config.py
    cf_file, cf_before, cf_last, cf_calls, cf_error,
    \* upload_word_baseline_capture on the objects under one baseline prefix
    r2_store, r2_pages, r2_dry_run, r2_pc, r2_existing, r2_i, r2_ops,
    r2_error,
    \* report generation of run_compare
    rc_outcome, rc_cpu_count, rc_pc, rc_i, rc_future, report_results,
    report_errors, rc_progress

docVars == <<word_pages, superdoc_pages, config, pc, idx, pages,
             total_weight, weighted_sum, weighted_sum_strict,
             weighted_sum_drift, result, error, loaded>>
pageVars == <<sp_config, sp_in, sp_out, sp_calls>>
weightVars == <<w_in, w_raw, w_out, w_metrics, w_k, w_scaled>>
pixelVars == <<px_word, px_sd, px_config, px_res>>
alignVars == <<al_mov, al_config, al_res>>
rowVars == <<vm_word, vm_sd, vm_config, vm_round, vm_res>>
configVars == <<cf_file, cf_before, cf_last, cf_calls, cf_error>>
uploadVars == <<r2_store, r2_pages, r2_dry_run, r2_pc, r2_existing, r2_i,
                r2_ops, r2_error>>
compareVars == <<rc_outcome, rc_cpu_count, rc_pc, rc_i, rc_future,
                 report_results, report_errors, rc_progress>>
vars == <<docVars, prev, pageVars, weightVars, pixelVars, alignVars,
        rowVars, configVars, uploadVars, compareVars>>

\* what a call of one family leaves alone
outsideDoc == <<pageVars, weightVars, pixelVars, alignVars, rowVars,
        configVars, uploadVars, compareVars>>
callVars == <<prev>>
outsidePage == <<docVars, prev, weightVars, pixelVars, alignVars, rowVars,
        configVars, uploadVars, compareVars>>
outsideWeights == <<docVars, prev, pageVars, pixelVars, alignVars, rowVars,
        configVars, uploadVars, compareVars>>
outsidePixels == <<docVars, prev, pageVars, weightVars, alignVars, rowVars,
        configVars, uploadVars, compareVars>>
outsideAlign == <<docVars, prev, pageVars, weightVars, pixelVars, rowVars,
        configVars, uploadVars, compareVars>>
outsideRow == <<docVars, prev, pageVars, weightVars, pixelVars, alignVars,
        configVars, uploadVars, compareVars>>
outsideConfig == <<docVars, prev, pageVars, weightVars, pixelVars,
        alignVars, rowVars, uploadVars, compareVars>>
outsideUpload == <<docVars, prev, pageVars, weightVars, pixelVars,
        alignVars, rowVars, configVars, compareVars>>
outsideCompare == <<docVars, prev, pageVars, weightVars, pixelVars,
        alignVars, rowVars, configVars, uploadVars>>

\* Python's None, for the variables that otherwise hold a record
None == [none |-> TRUE]
\* no exception raised
NoError == ""

(***************************************************************************)
(* Rationals standing for Python floats.                                   *)
(***************************************************************************)
Abs(i) == IF i < 0 THEN -i ELSE i

RECURSIVE GCD(_, _)
GCD(a, b) == IF b = 0 THEN a ELSE GCD(b, a % b)

\* n / d for d # 0, in lowest terms with a positive denominator
Q(n, d) ==
    LET s == IF d < 0 THEN -1 ELSE 1
        g == GCD(Abs(n), Abs(d))
    IN  [n |-> (s * n) \div g, d |-> (s * d) \div g]

Z(i) == [n |-> i, d |-> 1]

QAdd(a, b) == Q(a.n * b.d + b.n * a.d, a.d * b.d)
QSub(a, b) == Q(a.n * b.d - b.n * a.d, a.d * b.d)
QMul(a, b) == Q(a.n * b.n, a.d * b.d)
QDiv(a, b) == Q(a.n * b.d, a.d * b.n)
QLe(a, b) == a.n * b.d <= b.n * a.d
QLt(a, b) == a.n * b.d < b.n * a.d
QGe(a, b) == QLe(b, a)
QGt(a, b) == QLt(b, a)
QMin(a, b) == IF QLe(a, b) THEN a ELSE b
QMax(a, b) == IF QLe(a, b) THEN b ELSE a

(***************************************************************************)
(* ScoreWeights and ScoreConfig                                            *)
(***************************************************************************)
WeightKeys ==
    <<"ssim_full", "ssim_small", "ink_f1", "edge_iou", "color_sim", "blob_sim">>

ScoreWeights(a, b, c, d, e, f) ==
    [ssim_full |-> a, ssim_small |-> b, ink_f1 |-> c,
     edge_iou |-> d, color_sim |-> e, blob_sim |-> f]

DefaultWeights ==
    ScoreWeights(Q(25, 100), Q(15, 100), Q(20, 100),
                 Q(15, 100), Q(15, 100), Q(10, 100))

RECURSIVE SumValues(_, _)
SumValues(w, i) ==
    IF i = 0 THEN Z(0) ELSE QAdd(SumValues(w, i - 1), w[WeightKeys[i]])

\* sum(asdict(self).values())
WeightTotal(w) == SumValues(w, Len(WeightKeys))

normalized_max(w) ==
    LET m == QMax(QMax(QMax(w.ssim_full, w.ssim_small),
                       QMax(w.ink_f1, w.edge_iou)),
                  QMax(w.color_sim, w.blob_sim))
    IN  IF QLe(m, Z(0)) THEN w
        ELSE [k \in DOMAIN w |-> QMul(w[k], QDiv(Z(1), m))]

\* ScoreWeights.normalized
normalized(w) ==
    LET total == WeightTotal(w)
    IN  IF QLe(total, Z(0)) THEN w
        ELSE LET scale == QDiv(Z(1), total)
             IN  [k \in DOMAIN w |-> QMul(w[k], scale)]

DefaultConfig ==
    [max_shift_px |-> Z(5),
     align_upsample |-> 10,
     downscale_factor |-> Q(1, 4),
     edge_sigma |-> Q(12, 10),
     edge_dilate |-> 1,
     ink_min_size |-> 24,
     ink_tol_px |-> Z(2),
     drift_sigma |-> Z(2),
     min_drift_px |-> Z(1),
     single_issue_cap |-> Z(30),
     single_issue_min_gain |-> Z(15),
     single_issue_min_ssim_small |-> Q(7, 10),
     single_issue_min_ink_f1 |-> Q(65, 100),
     single_issue_min_edge_iou |-> Q(5, 10),
     single_issue_max_blob_penalty |-> Q(3, 100),
     color_deltaE_max |-> Z(20),
     blob_min_size |-> 40,
     weights |-> DefaultWeights]

(***************************************************************************)
(* _compute_metrics: the part score.py computes from the library results.  *)
(* raw = [ssim_full, ssim_small, ink_f1, edge_iou, delta_e, blob_penalty,  *)
(*        ink_area] as returned by structural_similarity,                  *)
(* _f1_with_tolerance, _edge_iou, _delta_e_mean, _blob_penalty and         *)
(* ink_union.sum() for one (reference, candidate) pair.                    *)
(***************************************************************************)
Clamp01(x) == QMin(QMax(x, Z(0)), Z(1))

WeightedSum(weights, m) ==
    QAdd(QAdd(QAdd(QMul(weights.ssim_full, m.ssim_full),
                   QMul(weights.ssim_small, m.ssim_small)),
              QAdd(QMul(weights.ink_f1, m.ink_f1),
                   QMul(weights.edge_iou, m.edge_iou))),
         QAdd(QMul(weights.color_sim, m.color_sim),
              QMul(weights.blob_sim, m.blob_sim)))

MetricsWith(raw, cfg, weights) ==
    LET blob_sim == QSub(Z(1), raw.blob_penalty)
        color_sim == QMax(Z(0),
            QSub(Z(1), QMin(QDiv(raw.delta_e, cfg.color_deltaE_max), Z(1))))
        m == [ssim_full |-> Clamp01(raw.ssim_full),
              ssim_small |-> Clamp01(raw.ssim_small),
              ink_f1 |-> Clamp01(raw.ink_f1),
              edge_iou |-> Clamp01(raw.edge_iou),
              color_sim |-> Clamp01(color_sim),
              blob_sim |-> Clamp01(blob_sim)]
        score == WeightedSum(weights, m)
    IN  [score |-> QMul(score, Z(100)),
         ssim_full |-> m.ssim_full,
         ssim_small |-> m.ssim_small,
         ink_f1 |-> m.ink_f1,
         edge_iou |-> m.edge_iou,
         color_sim |-> m.color_sim,
         delta_e |-> raw.delta_e,
         blob_penalty |-> raw.blob_penalty,
         ink_area |-> raw.ink_area]

\* the weighted sum taken with the weights as configured
_compute_metrics_raw_weights(raw, cfg) == MetricsWith(raw, cfg, cfg.weights)

_compute_metrics(raw, cfg) == MetricsWith(raw, cfg, normalized(cfg.weights))

(***************************************************************************)
(* _vertical_map_from_ink: the gates around the inverse-CDF row mapping.   *)
(* v = [ink, strength]: ink is TRUE when both smoothed row projections     *)
(* have non-zero mass; strength is the mean absolute row displacement of   *)
(* the interpolated mapping (line 216), read only when ink is TRUE.        *)
(***************************************************************************)
\* the None returned in place of a row mapping
NoMap == "None"

\* no mapping for a drift strength equal to min_drift_px
_vertical_map_from_ink_strict_threshold(v, cfg) ==
    IF ~v.ink THEN [map_y |-> NoMap, drift_strength |-> Z(0)]
    ELSE IF QLe(v.strength, cfg.min_drift_px)
         THEN [map_y |-> NoMap, drift_strength |-> v.strength]
         ELSE [map_y |-> "map_y", drift_strength |-> v.strength]

\* a mapping returned whatever the drift strength
_vertical_map_from_ink_no_threshold(v, cfg) ==
    IF ~v.ink THEN [map_y |-> NoMap, drift_strength |-> Z(0)]
    ELSE [map_y |-> "map_y", drift_strength |-> v.strength]

\* lines 198-219; v = [ink, strength]: whether both row projections have
\* ink, and the mean absolute row displacement of the interpolated mapping
_vertical_map_from_ink(v, cfg) ==
    IF ~v.ink THEN [map_y |-> NoMap, drift_strength |-> Z(0)]
    ELSE IF QLt(v.strength, cfg.min_drift_px)
         THEN [map_y |-> NoMap, drift_strength |-> v.strength]
         ELSE [map_y |-> "map_y", drift_strength |-> v.strength]

(***************************************************************************)
(* _score_page.  in = [strict, vmap, drift]: the raw bundle of the aligned *)
(* candidate, the row-mapping input, and the raw bundle of the row-warped  *)
(* candidate (measured only when a mapping is returned).                   *)
(***************************************************************************)
SingleIssue_no_blob_gate(drift_applied, improvement, drift_strength, drift_metrics, cfg) ==
    /\ drift_applied
    /\ QGe(improvement, cfg.single_issue_min_gain)
    /\ QGe(drift_strength, cfg.min_drift_px)
    /\ QGe(drift_metrics.ssim_small, cfg.single_issue_min_ssim_small)
    /\ QGe(drift_metrics.ink_f1, cfg.single_issue_min_ink_f1)
    /\ QGe(drift_metrics.edge_iou, cfg.single_issue_min_edge_iou)

SingleIssue_no_min_gain(drift_applied, improvement, drift_strength, drift_metrics, cfg) ==
    /\ drift_applied
    /\ QGe(drift_strength, cfg.min_drift_px)
    /\ QGe(drift_metrics.ssim_small, cfg.single_issue_min_ssim_small)
    /\ QGe(drift_metrics.ink_f1, cfg.single_issue_min_ink_f1)
    /\ QGe(drift_metrics.edge_iou, cfg.single_issue_min_edge_iou)
    /\ QLe(drift_metrics.blob_penalty, cfg.single_issue_max_blob_penalty)

\* lines 325-333
SingleIssue(drift_applied, improvement, drift_strength, drift_metrics, cfg) ==
    /\ drift_applied
    /\ QGe(improvement, cfg.single_issue_min_gain)
    /\ QGe(drift_strength, cfg.min_drift_px)
    /\ QGe(drift_metrics.ssim_small, cfg.single_issue_min_ssim_small)
    /\ QGe(drift_metrics.ink_f1, cfg.single_issue_min_ink_f1)
    /\ QGe(drift_metrics.edge_iou, cfg.single_issue_min_edge_iou)
    /\ QLe(drift_metrics.blob_penalty, cfg.single_issue_max_blob_penalty)

\* the larger of the cap and the improvement is credited
CombinedScore_max_boost(single_issue, strict_score, improvement, cfg) ==
    IF single_issue
    THEN QAdd(strict_score, QMax(cfg.single_issue_cap, improvement))
    ELSE strict_score

\* the credit taken off the strict score
CombinedScore_subtracted(single_issue, strict_score, improvement, cfg) ==
    IF single_issue
    THEN QSub(strict_score, QMin(cfg.single_issue_cap, improvement))
    ELSE strict_score

CombinedScore_uncapped(single_issue, strict_score, improvement, cfg) ==
    IF single_issue THEN QAdd(strict_score, improvement) ELSE strict_score

CombinedScore_always_cap(single_issue, strict_score, improvement, cfg) ==
    IF single_issue
    THEN QAdd(strict_score, cfg.single_issue_cap)
    ELSE strict_score

\* lines 335-339
CombinedScore(single_issue, strict_score, improvement, cfg) ==
    IF single_issue
    THEN QAdd(strict_score, QMin(cfg.single_issue_cap, improvement))
    ELSE strict_score

_score_page(in, cfg) ==
    LET strict_metrics == _compute_metrics(in.strict, cfg)
        vm == _vertical_map_from_ink(in.vmap, cfg)
        drift_strength == vm.drift_strength
        drift_applied == vm.map_y # NoMap
        drift_metrics == IF drift_applied
                         THEN _compute_metrics(in.drift, cfg)
                         ELSE strict_metrics
        improvement == QSub(drift_metrics.score, strict_metrics.score)
        single_issue == SingleIssue(drift_applied, improvement,
                                    drift_strength, drift_metrics, cfg)
        combined_score == CombinedScore(single_issue, strict_metrics.score,
                                        improvement, cfg)
    IN  [score |-> combined_score,
         score_strict |-> strict_metrics.score,
         score_drift |-> drift_metrics.score,
         single_issue_applied |-> single_issue,
         drift_applied |-> drift_applied,
         drift_strength_px |-> drift_strength,
         ssim_full |-> strict_metrics.ssim_full,
         ssim_small |-> strict_metrics.ssim_small,
         ink_f1 |-> strict_metrics.ink_f1,
         edge_iou |-> strict_metrics.edge_iou,
         color_sim |-> strict_metrics.color_sim,
         delta_e |-> strict_metrics.delta_e,
         blob_penalty |-> strict_metrics.blob_penalty,
         ink_area |-> strict_metrics.ink_area,
         drift_ssim_full |-> drift_metrics.ssim_full,
         drift_ssim_small |-> drift_metrics.ssim_small,
         drift_ink_f1 |-> drift_metrics.ink_f1,
         drift_edge_iou |-> drift_metrics.edge_iou,
         drift_color_sim |-> drift_metrics.color_sim,
         drift_delta_e |-> drift_metrics.delta_e,
         drift_blob_penalty |-> drift_metrics.blob_penalty]

\* the drift pass computed whether or not a mapping was returned
_score_page_calls_always_twice(in, cfg) ==
    <<"_align_images", "_compute_metrics", "_ink_mask", "_ink_mask",
      "_vertical_map_from_ink", "_apply_vertical_map", "_compute_metrics">>

\* lines 308-322: the functions of score.py that _score_page calls, in order;
\* the second _compute_metrics is given the row-warped candidate
_score_page_calls(in, cfg) ==
    <<"_align_images", "_compute_metrics", "_ink_mask", "_ink_mask",
      "_vertical_map_from_ink">>
    \o (IF _vertical_map_from_ink(in.vmap, cfg).map_y # NoMap
        THEN <<"_apply_vertical_map", "_compute_metrics">>
        ELSE <<>>)

(***************************************************************************)
(* SpecPage: _score_page applied to one measured page pair.                *)
(***************************************************************************)
Raw(sf, ss, f1, ei, de, bp, area) ==
    [ssim_full |-> sf, ssim_small |-> ss, ink_f1 |-> f1, edge_iou |-> ei,
     delta_e |-> de, blob_penalty |-> bp, ink_area |-> area]

\* identical renders: score 100
RawPerfect == Raw(Z(1), Z(1), Z(1), Z(1), Z(0), Z(0), 1000)
\* strict score 70 under the default weights
RawFair == Raw(Q(6, 10), Q(8, 10), Q(5, 10), Q(6, 10), Z(0), Q(1, 10), 1000)
\* strict score 50.25 under the default weights
RawPoor == Raw(Q(4, 10), Q(6, 10), Q(3, 10), Q(4, 10), Z(5), Q(2, 10), 800)
\* library results slightly out of range (negative SSIM, rounding above 1)
RawOutOfRange ==
    Raw(Q(-1, 10), Q(101, 100), Z(0), Z(0), Z(25), Z(1), 0)

StrictSamples == {RawPerfect, RawFair, RawPoor, RawOutOfRange}

DriftSamples ==
    {Raw(sf, ss, f1, ei, Z(0), bp, 1000) :
        sf \in {Q(1, 2), Z(1)},
        ss \in {Q(69, 100), Q(7, 10), Z(1)},
        f1 \in {Q(3, 5), Q(65, 100), Z(1)},
        ei \in {Q(2, 5), Q(1, 2), Z(1)},
        bp \in {Z(0), Q(3, 100), Q(1, 20)}}

VmapSamples ==
    {[ink |-> FALSE, strength |-> Z(0)]}
        \cup {[ink |-> TRUE, strength |-> x] : x \in {Q(1, 2), Z(1), Z(3)}}

PageInputs ==
    {[strict |-> a, vmap |-> v, drift |-> b] :
        a \in StrictSamples, v \in VmapSamples, b \in DriftSamples}

\* cap below the minimum gain: every credit is capped
ConfigCapBelowGain ==
    [DefaultConfig EXCEPT !.single_issue_cap = Z(10)]
\* no minimum gain and no credit
ConfigZeroGain ==
    [DefaultConfig EXCEPT !.single_issue_min_gain = Z(0),
                          !.single_issue_cap = Z(0)]
\* tighter gates and weights that do not sum to 1
ConfigTight ==
    [DefaultConfig EXCEPT !.min_drift_px = Z(2),
                          !.single_issue_min_ssim_small = Z(1),
                          !.weights = ScoreWeights(Z(1), Z(1), Z(0),
                                                   Z(0), Z(0), Z(0))]

\* a caller that zeroes every weight
ConfigZeroWeights ==
    [DefaultConfig EXCEPT !.weights = ScoreWeights(Z(0), Z(0), Z(0),
                                                   Z(0), Z(0), Z(0))]

\* a negative minimum gain: a drift pass that scores lower still counts
ConfigNegativeGain ==
    [DefaultConfig EXCEPT !.single_issue_min_gain = Z(-50)]

PageConfigs ==
    {DefaultConfig, ConfigCapBelowGain, ConfigZeroGain, ConfigTight,
     ConfigNegativeGain}

DocIdle ==
    /\ word_pages = <<>> /\ superdoc_pages = <<>> /\ config = None
    /\ pc = "idle" /\ idx = 0 /\ pages = <<>>
    /\ total_weight = 0 /\ weighted_sum = Z(0)
    /\ weighted_sum_strict = Z(0) /\ weighted_sum_drift = Z(0)
    /\ result = None /\ error = NoError /\ loaded = <<>>
    /\ prev = None

PageIdle ==
    sp_config = None /\ sp_in = None /\ sp_out = None /\ sp_calls = <<>>

WeightIdle ==
    /\ w_in = None /\ w_raw = None /\ w_out = None /\ w_metrics = None
    /\ w_k = None /\ w_scaled = None

\* the families that a specification does not exercise stay at rest
PixelIdle ==
    px_word = None /\ px_sd = None /\ px_config = None /\ px_res = None

AlignIdle == al_mov = None /\ al_config = None /\ al_res = None

RowIdle ==
    /\ vm_word = None /\ vm_sd = None /\ vm_config = None
    /\ vm_round = None /\ vm_res = None

ConfigIdle ==
    /\ cf_file = None /\ cf_before = None /\ cf_last = None
    /\ cf_calls = None /\ cf_error = None

UploadIdle ==
    /\ r2_store = None /\ r2_pages = None /\ r2_dry_run = None
    /\ r2_pc = None /\ r2_existing = None /\ r2_i = None
    /\ r2_ops = None /\ r2_error = None

CompareIdle ==
    /\ rc_outcome = None /\ rc_cpu_count = None /\ rc_pc = None
    /\ rc_i = None /\ rc_future = None /\ report_results = None
    /\ report_errors = None /\ rc_progress = None

OnlyDoc ==
    /\ PageIdle /\ WeightIdle /\ PixelIdle
    /\ AlignIdle /\ RowIdle /\ ConfigIdle /\ UploadIdle /\ CompareIdle
OnlyPage ==
    /\ DocIdle /\ WeightIdle /\ PixelIdle
    /\ AlignIdle /\ RowIdle /\ ConfigIdle /\ UploadIdle /\ CompareIdle
OnlyWeights ==
    /\ DocIdle /\ PageIdle /\ PixelIdle
    /\ AlignIdle /\ RowIdle /\ ConfigIdle /\ UploadIdle /\ CompareIdle
OnlyPixels ==
    /\ DocIdle /\ PageIdle /\ WeightIdle
    /\ AlignIdle /\ RowIdle /\ ConfigIdle /\ UploadIdle /\ CompareIdle
OnlyAlign ==
    /\ DocIdle /\ PageIdle /\ WeightIdle
    /\ PixelIdle /\ RowIdle /\ ConfigIdle /\ UploadIdle /\ CompareIdle
OnlyRow ==
    /\ DocIdle /\ PageIdle /\ WeightIdle
    /\ PixelIdle /\ AlignIdle /\ ConfigIdle /\ UploadIdle /\ CompareIdle
OnlyConfig ==
    /\ DocIdle /\ PageIdle /\ WeightIdle
    /\ PixelIdle /\ AlignIdle /\ RowIdle /\ UploadIdle /\ CompareIdle
OnlyUpload ==
    /\ DocIdle /\ PageIdle /\ WeightIdle
    /\ PixelIdle /\ AlignIdle /\ RowIdle /\ ConfigIdle /\ CompareIdle
OnlyCompare ==
    /\ DocIdle /\ PageIdle /\ WeightIdle
    /\ PixelIdle /\ AlignIdle /\ RowIdle /\ ConfigIdle /\ UploadIdle

InitPage ==
    /\ sp_config \in PageConfigs
    /\ sp_in \in PageInputs
    /\ sp_out = None
    /\ sp_calls = <<>>
    /\ OnlyPage

score_page_call ==
    /\ sp_out = None
    /\ sp_out' = _score_page(sp_in, sp_config)
    /\ sp_calls' = _score_page_calls(sp_in, sp_config)
    /\ UNCHANGED <<sp_config, sp_in, outsidePage>>

NextPage == score_page_call

SpecPage == InitPage /\ [][NextPage]_vars

Scored == sp_out # None

\* score_drift - score_strict of the page record
Improvement == QSub(sp_out.score_drift, sp_out.score_strict)

\* C1: single_issue_applied is true if and only if drift was applied, the
\* drift score exceeds the strict score by at least single_issue_min_gain,
\* drift_strength_px >= min_drift_px, the drift-corrected ssim_small, ink_f1
\* and edge_iou reach their floors and the drift-corrected blob_penalty
\* stays at or below its ceiling.
C1_SingleIssueIff ==
    Scored =>
        (sp_out.single_issue_applied <=>
            /\ sp_out.drift_applied
            /\ QGe(Improvement, sp_config.single_issue_min_gain)
            /\ QGe(sp_out.drift_strength_px, sp_config.min_drift_px)
            /\ QGe(sp_out.drift_ssim_small,
                   sp_config.single_issue_min_ssim_small)
            /\ QGe(sp_out.drift_ink_f1, sp_config.single_issue_min_ink_f1)
            /\ QGe(sp_out.drift_edge_iou, sp_config.single_issue_min_edge_iou)
            /\ QLe(sp_out.drift_blob_penalty,
                   sp_config.single_issue_max_blob_penalty))

\* a page denied the credit by the blob ceiling alone
C1_Witness ==
    /\ Scored
    /\ ~sp_out.single_issue_applied
    /\ sp_out.drift_applied
    /\ QGe(Improvement, sp_config.single_issue_min_gain)
    /\ QGe(sp_out.drift_ssim_small, sp_config.single_issue_min_ssim_small)
    /\ QGe(sp_out.drift_ink_f1, sp_config.single_issue_min_ink_f1)
    /\ QGe(sp_out.drift_edge_iou, sp_config.single_issue_min_edge_iou)
    /\ QGt(sp_out.drift_blob_penalty, sp_config.single_issue_max_blob_penalty)

\* C2: the combined score is score_strict + min(score_drift - score_strict,
\* single_issue_cap) when the credit is granted and score_strict otherwise.
C2_CombinedScore ==
    Scored =>
        sp_out.score =
            IF sp_out.single_issue_applied
            THEN QAdd(sp_out.score_strict,
                      QMin(Improvement, sp_config.single_issue_cap))
            ELSE sp_out.score_strict

\* a granted credit that the cap cuts
C2_Witness ==
    /\ Scored
    /\ sp_out.single_issue_applied
    /\ QGt(Improvement, sp_config.single_issue_cap)

\* C3 as claimed: a granted credit always leaves score < score_drift.
C3_Original ==
    (Scored /\ sp_out.single_issue_applied) =>
        QLt(sp_out.score, sp_out.score_drift)

\* C3 amended: a granted credit never lifts the combined score above the
\* drift-corrected score, and leaves it strictly below exactly when the
\* improvement exceeds single_issue_cap; an improvement within the cap is
\* credited in full (score = score_drift).
C3_CreditBounded ==
    (Scored /\ sp_out.single_issue_applied) =>
        /\ QLe(sp_out.score, sp_out.score_drift)
        /\ QLt(sp_out.score, sp_out.score_drift)
               <=> QGt(Improvement, sp_config.single_issue_cap)

\* a granted credit under the default config that reaches score_drift
C3_Witness ==
    /\ Scored
    /\ sp_config = DefaultConfig
    /\ sp_out.single_issue_applied
    /\ sp_out.score = sp_out.score_drift
    /\ QLt(sp_out.score_strict, sp_out.score)

\* C4: under the default ScoreConfig a granted credit is strictly positive
\* and never exceeds single_issue_cap.
C4_DefaultCredit ==
    (Scored /\ sp_config = DefaultConfig /\ sp_out.single_issue_applied) =>
        /\ QGt(sp_out.score, sp_out.score_strict)
        /\ QLe(QSub(sp_out.score, sp_out.score_strict),
               DefaultConfig.single_issue_cap)

\* a credit of exactly the cap under the default config
C4_Witness ==
    /\ Scored
    /\ sp_config = DefaultConfig
    /\ sp_out.single_issue_applied
    /\ QSub(sp_out.score, sp_out.score_strict) = DefaultConfig.single_issue_cap
    /\ QLt(sp_out.score, sp_out.score_drift)

(***************************************************************************)
(* Spec: score_document(word_pages, superdoc_pages, config).               *)
(*                                                                         *)
(* A page file is an undecodable file or the PNG of one of a few renders.  *)
(* Measure gives, for a decoded (reference, candidate) pair, what the      *)
(* library calls of _score_page measure on it after _resize_to_match and   *)
(* _align_images.                                                          *)
(***************************************************************************)
MaxPages == 2

Corrupt == "corrupt"
Renders == {"text", "drifted", "sparse", "blank"}
Files == Renders \cup {Corrupt}

\* ink pixels of a render
InkPixels(img) ==
    CASE img = "text" -> 1000
      [] img = "drifted" -> 1000
      [] img = "sparse" -> 10
      [] OTHER -> 0

Measure(w, s) ==
    CASE w = s ->
            \* the same render twice
            [strict |-> Raw(Z(1), Z(1), Z(1), Z(1), Z(0), Z(0), InkPixels(w)),
             vmap |-> [ink |-> InkPixels(w) > 0, strength |-> Z(0)],
             drift |-> Raw(Z(1), Z(1), Z(1), Z(1), Z(0), Z(0), InkPixels(w))]
      [] {w, s} = {"text", "drifted"} ->
            \* the same content 3 px lower: strict 70, drift-corrected 92.5
            [strict |-> RawFair,
             vmap |-> [ink |-> TRUE, strength |-> Z(3)],
             drift |-> Raw(Z(1), Z(1), Z(1), Q(1, 2), Z(0), Z(0), 1000)]
      [] "blank" \in {w, s} ->
            \* content against an empty page: strict 20, no row mapping
            [strict |-> Raw(Q(1, 2), Q(1, 2), Z(0), Z(0), Z(25), Z(1),
                            InkPixels(w) + InkPixels(s)),
             vmap |-> [ink |-> FALSE, strength |-> Z(0)],
             drift |-> RawPoor]
      [] w = "sparse" ->
            \* unrelated content, row masses far apart: strict 0, drift 50.25
            [strict |-> Raw(Z(0), Z(0), Z(0), Z(0), Z(40), Z(1),
                            InkPixels(w) + InkPixels(s)),
             vmap |-> [ink |-> TRUE, strength |-> Z(5)],
             drift |-> RawPoor]
      [] OTHER ->
            \* unrelated content, row masses close: strict 0, no row mapping
            [strict |-> Raw(Z(0), Z(0), Z(0), Z(0), Z(40), Z(1),
                            InkPixels(w) + InkPixels(s)),
             vmap |-> [ink |-> TRUE, strength |-> Q(1, 2)],
             drift |-> RawPoor]

LoadError == "cannot identify image file"
NoPagesError == "No pages available for scoring."

_load_image_lenient(path) ==
    IF path = Corrupt
    THEN [raised |-> FALSE, image |-> "blank"]
    ELSE [raised |-> FALSE, image |-> path]

\* Image.open(path) raises on a file it cannot decode
_load_image(path) ==
    IF path = Corrupt
    THEN [raised |-> TRUE, image |-> Corrupt]
    ELSE [raised |-> FALSE, image |-> path]

SeqsUpTo(S, n) == UNION {[1..k -> S] : k \in 0..n}

Min2(a, b) == IF a <= b THEN a ELSE b
Max2(a, b) == IF a >= b THEN a ELSE b

\* line 374
page_count == Min2(Len(word_pages), Len(superdoc_pages))

WithPage(rec, n) ==
    [k \in DOMAIN rec \cup {"page"} |-> IF k = "page" THEN n ELSE rec[k]]

PageWeight_no_floor(metrics_page) == metrics_page.ink_area

\* line 391
PageWeight(metrics_page) == Max2(metrics_page.ink_area, 1)

RECURSIVE MinOver(_, _, _)
\* min(p[key] for p in ps[1..n]), n >= 1
MinOver(ps, key, n) ==
    IF n = 1 THEN ps[1][key] ELSE QMin(MinOver(ps, key, n - 1), ps[n][key])

\* the first page's value in place of the least
MinField_first_page(ps, key) == ps[1][key]

\* lines 400-402
MinField(ps, key) == MinOver(ps, key, Len(ps))

\* lines 397-399
Average(sum, weight) == IF weight # 0 THEN QDiv(sum, Z(weight)) ELSE Z(0)

Overall_swapped(avg, mn) == QAdd(QMul(Q(3, 10), avg), QMul(Q(7, 10), mn))

\* lines 403-405
Overall(avg, mn) == QAdd(QMul(Q(7, 10), avg), QMul(Q(3, 10), mn))

\* the configuration recorded as it was passed
ConfigDict_raw_weights(cfg) == cfg

\* lines 419-422: asdict(config) with "weights" replaced
ConfigDict(cfg) == [cfg EXCEPT !.weights = normalized(cfg.weights)]

Init ==
    /\ word_pages \in SeqsUpTo(Files, MaxPages)
    /\ superdoc_pages \in SeqsUpTo(Files, MaxPages)
    /\ config \in {None, ConfigTight, ConfigZeroWeights}
    /\ pc = "call"
    /\ idx = 0
    /\ pages = <<>>
    /\ total_weight = 0
    /\ weighted_sum = Z(0)
    /\ weighted_sum_strict = Z(0)
    /\ weighted_sum_drift = Z(0)
    /\ result = None
    /\ error = NoError
    /\ loaded = <<>>
    /\ prev = None
    /\ OnlyDoc

Raise(msg) ==
    /\ pc' = "raised"
    /\ error' = msg
    /\ UNCHANGED <<word_pages, superdoc_pages, config, idx, pages,
                   total_weight, weighted_sum, weighted_sum_strict,
                   weighted_sum_drift, result>>

score_document_entry_unchecked ==
    /\ pc = "call"
    /\ config' = IF config = None THEN DefaultConfig ELSE config
    /\ pc' = "loop"
    /\ UNCHANGED <<word_pages, superdoc_pages, idx, pages, total_weight,
                   weighted_sum, weighted_sum_strict, weighted_sum_drift,
                   result, error, loaded, callVars, outsideDoc>>

\* lines 371-382
score_document_entry ==
    /\ pc = "call"
    /\ config' = IF config = None THEN DefaultConfig ELSE config
    /\ IF page_count = 0
       THEN /\ pc' = "raised"
            /\ error' = NoPagesError
       ELSE /\ pc' = "loop"
            /\ error' = error
    /\ UNCHANGED <<word_pages, superdoc_pages, idx, pages, total_weight,
                   weighted_sum, weighted_sum_strict, weighted_sum_drift,
                   result, loaded, callVars, outsideDoc>>

ScoredPage_first_candidate(word_img, sd_img, i) ==
    WithPage(_score_page(Measure(word_img, _load_image(superdoc_pages[1]).image),
                         config), i + 1)

\* lines 387-389: the record of page i (0-based) from its two decoded images
ScoredPage(word_img, sd_img, i) ==
    WithPage(_score_page(Measure(word_img, sd_img), config), i + 1)

\* lines 384-395: one iteration of the page loop
score_document_loop ==
    /\ pc = "loop"
    /\ idx < page_count
    /\ LET word_img == _load_image(word_pages[idx + 1])
           sd_img == _load_image(superdoc_pages[idx + 1])
           word_read == Append(loaded, <<"word_pages", idx>>)
           both_read == Append(word_read, <<"superdoc_pages", idx>>)
       IN  IF word_img.raised
           THEN /\ loaded' = word_read
                /\ Raise(LoadError)
           ELSE IF sd_img.raised
           THEN /\ loaded' = both_read
                /\ Raise(LoadError)
           ELSE /\ loaded' = both_read
                /\ pages' = Append(pages,
                       ScoredPage(word_img.image, sd_img.image, idx))
                /\ LET metrics_page == pages'[idx + 1]
                       weight == PageWeight(metrics_page)
                   IN  /\ weighted_sum' = QAdd(weighted_sum,
                              QMul(metrics_page.score, Z(weight)))
                       /\ weighted_sum_strict' = QAdd(weighted_sum_strict,
                              QMul(metrics_page.score_strict, Z(weight)))
                       /\ weighted_sum_drift' = QAdd(weighted_sum_drift,
                              QMul(metrics_page.score_drift, Z(weight)))
                       /\ total_weight' = total_weight + weight
                /\ idx' = idx + 1
                /\ UNCHANGED <<word_pages, superdoc_pages, config, pc,
                               result, error>>
    /\ UNCHANGED <<callVars, outsideDoc>>

\* lines 397-423
score_document_return ==
    /\ pc = "loop"
    /\ idx = page_count
    /\ LET avg_score == Average(weighted_sum, total_weight)
           avg_score_strict == Average(weighted_sum_strict, total_weight)
           avg_score_drift == Average(weighted_sum_drift, total_weight)
           min_score == MinField(pages, "score")
           min_score_strict == MinField(pages, "score_strict")
           min_score_drift == MinField(pages, "score_drift")
       IN  result' =
               [overall_score |-> Overall(avg_score, min_score),
                overall_score_strict |->
                    Overall(avg_score_strict, min_score_strict),
                overall_score_drift |->
                    Overall(avg_score_drift, min_score_drift),
                page_count |-> page_count,
                average_score |-> avg_score,
                average_score_strict |-> avg_score_strict,
                average_score_drift |-> avg_score_drift,
                min_score |-> min_score,
                min_score_strict |-> min_score_strict,
                min_score_drift |-> min_score_drift,
                pages |-> pages,
                config |-> ConfigDict(config)]
    /\ pc' = "done"
    /\ UNCHANGED <<word_pages, superdoc_pages, config, idx, pages,
                   total_weight, weighted_sum, weighted_sum_strict,
                   weighted_sum_drift, error, loaded, callVars, outsideDoc>>

Next ==
    \/ score_document_entry
    \/ score_document_loop
    \/ score_document_return

Spec == Init /\ [][Next]_vars

Done == pc = "done"
Raised == pc = "raised"

\* the weight the claim gives a page: max(ink_area, 1)
ClaimedWeight(p) == IF p.ink_area >= 1 THEN p.ink_area ELSE 1

RECURSIVE SumOfWeights(_, _)
SumOfWeights(ps, n) ==
    IF n = 0 THEN 0 ELSE SumOfWeights(ps, n - 1) + ClaimedWeight(ps[n])

RECURSIVE WeightedTotal(_, _, _)
WeightedTotal(ps, key, n) ==
    IF n = 0 THEN Z(0)
    ELSE QAdd(WeightedTotal(ps, key, n - 1),
              QMul(ps[n][key], Z(ClaimedWeight(ps[n]))))

IsWeightedMean(avg, ps, key) ==
    QMul(avg, Z(SumOfWeights(ps, Len(ps)))) = WeightedTotal(ps, key, Len(ps))

\* C5: average_score, average_score_strict and average_score_drift are the
\* means of score, score_strict and score_drift over the scored pages, each
\* page weighted by max(ink_area, 1).
C5_WeightedMean ==
    Done =>
        /\ IsWeightedMean(result.average_score, result.pages, "score")
        /\ IsWeightedMean(result.average_score_strict, result.pages,
                          "score_strict")
        /\ IsWeightedMean(result.average_score_drift, result.pages,
                          "score_drift")

\* a blank page (ink_area 0, weight 1) averaged with an inked page of another
\* score, the three averages all different
C5_Witness ==
    /\ Done
    /\ \E i, j \in 1..Len(result.pages) :
          /\ result.pages[i].ink_area = 0
          /\ result.pages[j].ink_area > 1
          /\ result.pages[i].score # result.pages[j].score
    /\ result.average_score # result.average_score_strict

IsMinimum(mn, ps, key) ==
    /\ \E i \in 1..Len(ps) : ps[i][key] = mn
    /\ \A i \in 1..Len(ps) : QLe(mn, ps[i][key])

IsBlend(overall, avg, mn) ==
    overall = QAdd(QMul(Q(7, 10), avg), QMul(Q(3, 10), mn))

\* C6: min_score is the least combined score of the scored pages and
\* overall_score = 0.7 * average_score + 0.3 * min_score; likewise for the
\* strict variant over score_strict and the drift variant over score_drift.
C6_MinAndOverall ==
    Done =>
        /\ IsMinimum(result.min_score, result.pages, "score")
        /\ IsMinimum(result.min_score_strict, result.pages, "score_strict")
        /\ IsMinimum(result.min_score_drift, result.pages, "score_drift")
        /\ IsBlend(result.overall_score, result.average_score,
                   result.min_score)
        /\ IsBlend(result.overall_score_strict, result.average_score_strict,
                   result.min_score_strict)
        /\ IsBlend(result.overall_score_drift, result.average_score_drift,
                   result.min_score_drift)

\* two pages, the worse one second, so that minimum, average and overall
\* score all differ
C6_Witness ==
    /\ Done
    /\ Len(result.pages) >= 2
    /\ QLt(result.pages[2].score, result.pages[1].score)
    /\ QLt(result.min_score, result.overall_score)
    /\ QLt(result.overall_score, result.average_score)

ShorterLength ==
    IF Len(word_pages) <= Len(superdoc_pages)
    THEN Len(word_pages) ELSE Len(superdoc_pages)

\* the j-th call of _load_image when pages are read pairwise in index order
ExpectedLoad(j) ==
    <<IF j % 2 = 1 THEN "word_pages" ELSE "superdoc_pages", (j - 1) \div 2>>

\* C7: pages are paired by index. Record i is built from word_pages[i] and
\* superdoc_pages[i] and carries page = i (1-based); records are appended in
\* index order; no file at or beyond the length of the shorter list is ever
\* loaded; the returned page_count is that length and pages has exactly
\* page_count entries.
C7_PairedByIndex ==
    /\ Len(pages) <= ShorterLength
    /\ \A i \in 1..Len(pages) :
          /\ pages[i].page = i
          /\ pages[i] = WithPage(_score_page(
                 Measure(word_pages[i], superdoc_pages[i]), config), i)
    /\ \A j \in 1..Len(loaded) :
          /\ loaded[j] = ExpectedLoad(j)
          /\ loaded[j][2] < ShorterLength
    /\ Done =>
          /\ result.page_count = ShorterLength
          /\ Len(result.pages) = result.page_count
          /\ result.pages = pages
          /\ Len(loaded) = 2 * result.page_count

\* a returned score for lists of different lengths whose surplus file is
\* undecodable
C7_Witness ==
    /\ Done
    /\ result.page_count >= 1
    /\ \/ /\ Len(word_pages) > result.page_count
          /\ word_pages[Len(word_pages)] = Corrupt
       \/ /\ Len(superdoc_pages) > result.page_count
          /\ superdoc_pages[Len(superdoc_pages)] = Corrupt

\* C8: with an empty word_pages or superdoc_pages the call raises
\* "No pages available for scoring." before any image is loaded, and
\* neither a page record nor a document score is produced.
C8_NoPages ==
    ((Len(word_pages) = 0 \/ Len(superdoc_pages) = 0) /\ pc # "call") =>
        /\ Raised
        /\ error = "No pages available for scoring."
        /\ loaded = <<>>
        /\ pages = <<>>
        /\ result = None

\* the call has raised for one empty and one non-empty list
C8_Witness ==
    /\ Raised
    /\ Len(word_pages) = 0
    /\ Len(superdoc_pages) > 0

\* 0-based indices below the shorter length with an undecodable file
BadIndices ==
    {k \in 0..(ShorterLength - 1) :
        word_pages[k + 1] = Corrupt \/ superdoc_pages[k + 1] = Corrupt}

FirstBad == CHOOSE k \in BadIndices : \A m \in BadIndices : k <= m

\* C9: if a file of some page k below page_count cannot be decoded, the
\* call never returns a document score; page k and the pages after it are
\* never scored; and once the call has failed it has failed with the load
\* error, at page k, its last load being the one of the undecodable file.
C9_LoadErrorIsFatal ==
    (BadIndices # {}) =>
        /\ ~Done
        /\ result = None
        /\ Len(pages) <= FirstBad
        /\ idx <= FirstBad
        /\ Raised =>
              /\ error = LoadError
              /\ Len(pages) = FirstBad
              /\ loaded # <<>>
              /\ loaded[Len(loaded)][2] = FirstBad
              /\ (IF loaded[Len(loaded)][1] = "word_pages"
                  THEN word_pages ELSE superdoc_pages)[FirstBad + 1] = Corrupt

\* the call failed on the second page after scoring the first
C9_Witness ==
    /\ Raised
    /\ error = LoadError
    /\ Len(pages) = 1
    /\ result = None

(***************************************************************************)
(* SpecWeights: ScoreWeights.normalized() on a weight vector, and          *)
(* _compute_metrics under a config carrying that vector.                   *)
(***************************************************************************)
WeightValues == {Z(0), Q(1, 4), Z(1)}

WeightInputs ==
    {ScoreWeights(a, b, c, d, e, f) :
        a \in WeightValues, b \in WeightValues, c \in WeightValues,
        d \in WeightValues, e \in WeightValues, f \in WeightValues}
    \cup {DefaultWeights,
          \* the defaults times 2
          ScoreWeights(Q(1, 2), Q(3, 10), Q(2, 5), Q(3, 10), Q(3, 10), Q(1, 5)),
          \* a negative entry: total 0 and total below 0
          ScoreWeights(Z(-1), Z(1), Z(0), Z(0), Z(0), Z(0)),
          ScoreWeights(Z(-1), Q(1, 4), Z(0), Z(0), Z(0), Z(0))}

RawInputs == {RawFair, RawPoor, RawOutOfRange}

\* positive factors by which a caller may rescale its weights
ScaleFactors == {Q(1, 2), Z(2), Z(3)}

\* ScoreWeights(k * w.ssim_full, ..., k * w.blob_sim)
Scaled(w, k) == [key \in DOMAIN w |-> QMul(k, w[key])]

InitWeights ==
    /\ w_in \in WeightInputs
    /\ w_raw \in RawInputs
    /\ w_k \in ScaleFactors
    /\ w_out = None
    /\ w_metrics = None
    /\ w_scaled = None
    /\ OnlyWeights

\* config.weights.normalized()
normalized_call ==
    /\ w_out = None
    /\ w_out' = normalized(w_in)
    /\ UNCHANGED <<w_in, w_raw, w_k, w_metrics, w_scaled, outsideWeights>>

\* _compute_metrics(word_rgb, sd_rgb, ScoreConfig(weights=w_in))
compute_metrics_call ==
    /\ w_metrics = None
    /\ w_metrics' = _compute_metrics(w_raw,
                        [DefaultConfig EXCEPT !.weights = w_in])
    /\ UNCHANGED <<w_in, w_raw, w_k, w_out, w_scaled, outsideWeights>>

\* the same pair scored with every weight multiplied by w_k:
\* _compute_metrics(word_rgb, sd_rgb, ScoreConfig(weights=w_k * w_in))
compute_metrics_scaled_call ==
    /\ w_scaled = None
    /\ w_scaled' = _compute_metrics(w_raw,
                        [DefaultConfig EXCEPT !.weights = Scaled(w_in, w_k)])
    /\ UNCHANGED <<w_in, w_raw, w_k, w_out, w_metrics, outsideWeights>>

NextWeights ==
    normalized_call \/ compute_metrics_call \/ compute_metrics_scaled_call

SpecWeights == InitWeights /\ [][NextWeights]_vars

InputTotal ==
    QAdd(QAdd(QAdd(w_in.ssim_full, w_in.ssim_small),
              QAdd(w_in.ink_f1, w_in.edge_iou)),
         QAdd(w_in.color_sim, w_in.blob_sim))

InputNonNegative == \A k \in DOMAIN w_in : QLe(Z(0), w_in[k])
InputAllZero == \A k \in DOMAIN w_in : w_in[k] = Z(0)

\* the clamped sub-metric that weight k multiplies, read off the metrics
SubMetric(m, k) ==
    IF k = "blob_sim" THEN Clamp01(QSub(Z(1), m.blob_penalty)) ELSE m[k]

RECURSIVE ScaledSum(_, _, _, _)
\* sum over the first i weight keys of (w[k] / total) * sub-metric k
ScaledSum(w, total, m, i) ==
    IF i = 0 THEN Z(0)
    ELSE QAdd(ScaledSum(w, total, m, i - 1),
              QMul(QDiv(w[WeightKeys[i]], total), SubMetric(m, WeightKeys[i])))

RECURSIVE SumOut(_)
SumOut(i) == IF i = 0 THEN Z(0) ELSE QAdd(SumOut(i - 1), w_out[WeightKeys[i]])

\* C10: for non-negative weights of positive total, normalized() returns
\* each weight divided by the total, so the result sums to 1; for six zero
\* weights it returns them unchanged; and the score of _compute_metrics is
\* 100 times the sum of the sub-metrics weighted by the normalized weights
\* (by the unchanged zero weights when all are zero), not by the raw ones.
C10_Normalized ==
    /\ (w_out # None /\ InputNonNegative /\ QLt(Z(0), InputTotal)) =>
          /\ \A k \in DOMAIN w_in : w_out[k] = QDiv(w_in[k], InputTotal)
          /\ SumOut(Len(WeightKeys)) = Z(1)
    /\ (w_out # None /\ InputAllZero) => w_out = w_in
    /\ (w_metrics # None /\ InputNonNegative /\ QLt(Z(0), InputTotal)) =>
          w_metrics.score =
              QMul(Z(100), ScaledSum(w_in, InputTotal, w_metrics,
                                     Len(WeightKeys)))
    /\ (w_metrics # None /\ InputAllZero) => w_metrics.score = Z(0)

\* weights of total 2.5 normalized and used: the raw weights would give a
\* score 2.5 times as large
C10_Witness ==
    /\ w_out # None
    /\ w_metrics # None
    /\ InputNonNegative
    /\ InputTotal = Q(5, 2)
    /\ w_out # w_in
    /\ QLt(Z(0), w_metrics.score)

InputPositive == \A key \in DOMAIN w_in : QLt(Z(0), w_in[key])

\* C11: for weights with positive entries and a factor k > 0, the pair scored
\* with the weights k * w gets the same score, and the same metrics, as the
\* pair scored with w: only the ratios between the weights matter.
C11_ScaleInvariant ==
    (w_metrics # None /\ w_scaled # None /\ InputPositive /\ QLt(Z(0), w_k))
        => /\ w_scaled.score = w_metrics.score
           /\ w_scaled = w_metrics

C11_Witness ==
    /\ w_metrics # None /\ w_scaled # None
    /\ InputPositive
    /\ w_k = Z(3)
    /\ Scaled(w_in, w_k) # w_in
    /\ WeightTotal(w_in) # Z(1)
    /\ w_raw = RawPoor
    /\ w_scaled.score = w_metrics.score
    /\ QLt(Z(0), w_metrics.score)

\* how often _score_page called the function f
Calls(f) == Cardinality({i \in DOMAIN sp_calls : sp_calls[i] = f})

\* the drift_ fields of the page record are those of the metric set m
DriftFieldsOf(m) ==
    /\ sp_out.score_drift = m.score
    /\ sp_out.drift_ssim_full = m.ssim_full
    /\ sp_out.drift_ssim_small = m.ssim_small
    /\ sp_out.drift_ink_f1 = m.ink_f1
    /\ sp_out.drift_edge_iou = m.edge_iou
    /\ sp_out.drift_color_sim = m.color_sim
    /\ sp_out.drift_delta_e = m.delta_e
    /\ sp_out.drift_blob_penalty = m.blob_penalty

\* both pages have ink and the drift strength reaches min_drift_px
Significant ==
    sp_in.vmap.ink /\ QGe(sp_in.vmap.strength, sp_config.min_drift_px)

\* C17: when the drift strength is below min_drift_px, or a page has no ink,
\* the candidate is not row-warped, the metrics are computed once, the drift
\* fields repeat the strict metrics and drift_applied is false; when the
\* strength reaches min_drift_px the candidate is row-warped, the metrics are
\* computed a second time on the warped candidate and drift_applied is true.
C17_DriftOnlyWhenSignificant ==
    Scored =>
        IF Significant
        THEN /\ sp_out.drift_applied
             /\ Calls("_apply_vertical_map") = 1
             /\ Calls("_compute_metrics") = 2
             /\ sp_calls[Len(sp_calls)] = "_compute_metrics"
             /\ sp_calls[Len(sp_calls) - 1] = "_apply_vertical_map"
             /\ DriftFieldsOf(_compute_metrics(sp_in.drift, sp_config))
             /\ sp_out.drift_strength_px = sp_in.vmap.strength
        ELSE /\ ~sp_out.drift_applied
             /\ Calls("_apply_vertical_map") = 0
             /\ Calls("_compute_metrics") = 1
             /\ DriftFieldsOf(_compute_metrics(sp_in.strict, sp_config))
             /\ sp_out.score = sp_out.score_strict

\* a strength just below the threshold next to a warped render that would
\* have scored higher
C17_Witness ==
    /\ Scored
    /\ sp_in.vmap.ink
    /\ QLt(Z(0), sp_in.vmap.strength)
    /\ QLt(sp_in.vmap.strength, sp_config.min_drift_px)
    /\ ~sp_out.drift_applied
    /\ Calls("_compute_metrics") = 1
    /\ QLt(sp_out.score_strict,
           _compute_metrics(sp_in.drift, sp_config).score)

ResultKeys ==
    {"overall_score", "overall_score_strict", "overall_score_drift",
     "page_count",
     "average_score", "average_score_strict", "average_score_drift",
     "min_score", "min_score_strict", "min_score_drift",
     "pages", "config"}

PageKeys ==
    {"page", "score", "score_strict", "score_drift",
     "single_issue_applied", "drift_applied", "drift_strength_px",
     "ssim_full", "ssim_small", "ink_f1", "edge_iou", "color_sim",
     "delta_e", "blob_penalty", "ink_area",
     "drift_ssim_full", "drift_ssim_small", "drift_ink_f1", "drift_edge_iou",
     "drift_color_sim", "drift_delta_e", "drift_blob_penalty"}

FieldNames ==
    /\ DOMAIN result = ResultKeys
    /\ Len(result.pages) = result.page_count
    /\ \A i \in DOMAIN result.pages :
          /\ DOMAIN result.pages[i] = PageKeys
          /\ result.pages[i].page = i
    /\ DOMAIN result.config = DOMAIN DefaultConfig
    /\ DOMAIN result.config.weights = DOMAIN DefaultWeights

\* every field of the recorded configuration but the weights is the caller's
RecordedAsPassed ==
    \A k \in DOMAIN config \ {"weights"} : result.config[k] = config[k]

\* C20: the returned record has exactly the persisted top-level fields, every
\* page exactly the persisted page fields (the seven drift_ fields included),
\* and config.weights holds the normalized weights, not the caller's: each
\* weight divided by the total of the caller's weights, summing to 1.  (A
\* caller whose weights do not have a positive total gets them back as they
\* are, which is what normalized() returns for them.)
C20_FieldNames ==
    Done =>
        /\ FieldNames
        /\ RecordedAsPassed
        /\ IF QLt(Z(0), WeightTotal(config.weights))
           THEN /\ WeightTotal(result.config.weights) = Z(1)
                /\ \A k \in DOMAIN config.weights :
                      result.config.weights[k] =
                          QDiv(config.weights[k], WeightTotal(config.weights))
           ELSE result.config.weights = config.weights

\* two pages scored with weights (1, 1, 0, 0, 0, 0), recorded as (1/2, 1/2, ...)
C20_Witness ==
    /\ Done
    /\ result.page_count = 2
    /\ WeightTotal(config.weights) = Z(2)
    /\ result.config.weights # config.weights
    /\ result.config.weights.ssim_full = Q(1, 2)
    /\ WeightTotal(result.config.weights) = Z(1)

(***************************************************************************)
(* SpecTwice: one process calls score_document, then calls it again with   *)
(* the same configuration after at most one page has been re-rendered.     *)
(***************************************************************************)
TwiceFiles == {"text", "drifted", "blank"}

InitTwice ==
    /\ word_pages \in SeqsUpTo(TwiceFiles, MaxPages)
    /\ superdoc_pages \in SeqsUpTo(TwiceFiles, MaxPages)
    /\ config = None
    /\ pc = "call"
    /\ idx = 0
    /\ pages = <<>>
    /\ total_weight = 0
    /\ weighted_sum = Z(0)
    /\ weighted_sum_strict = Z(0)
    /\ weighted_sum_drift = Z(0)
    /\ result = None
    /\ error = NoError
    /\ loaded = <<>>
    /\ prev = None
    /\ OnlyDoc

\* page j (1-based) of a list replaced by the file f, where the list has it
Replaced(ps, j, f) == IF j \in DOMAIN ps THEN [ps EXCEPT ![j] = f] ELSE ps

\* a second call whose page list and sums are those the first call left
score_document_again_shared_locals ==
    /\ pc \in {"done", "raised"}
    /\ prev = None
    /\ prev' = [word_pages |-> word_pages, superdoc_pages |-> superdoc_pages,
                result |-> result, error |-> error]
    /\ \E j \in 1..MaxPages, f \in TwiceFiles, g \in TwiceFiles :
          /\ word_pages' = Replaced(word_pages, j, f)
          /\ superdoc_pages' = Replaced(superdoc_pages, j, g)
    /\ pc' = "call"
    /\ idx' = 0
    /\ result' = None
    /\ error' = NoError
    /\ loaded' = <<>>
    /\ UNCHANGED <<config, pages, total_weight, weighted_sum,
                   weighted_sum_strict, weighted_sum_drift, outsideDoc>>

\* lines 366-382: a second call; pages, total_weight and the three sums are
\* locals of the call and start empty again
score_document_again ==
    /\ pc \in {"done", "raised"}
    /\ prev = None
    /\ prev' = [word_pages |-> word_pages, superdoc_pages |-> superdoc_pages,
                result |-> result, error |-> error]
    /\ \E j \in 1..MaxPages, f \in TwiceFiles, g \in TwiceFiles :
          /\ word_pages' = Replaced(word_pages, j, f)
          /\ superdoc_pages' = Replaced(superdoc_pages, j, g)
    /\ pc' = "call"
    /\ idx' = 0
    /\ pages' = <<>>
    /\ total_weight' = 0
    /\ weighted_sum' = Z(0)
    /\ weighted_sum_strict' = Z(0)
    /\ weighted_sum_drift' = Z(0)
    /\ result' = None
    /\ error' = NoError
    /\ loaded' = <<>>
    /\ UNCHANGED <<config, outsideDoc>>

NextTwice ==
    \/ score_document_entry
    \/ score_document_loop
    \/ score_document_return
    \/ score_document_again

SpecTwice == InitTwice /\ [][NextTwice]_vars

\* both calls have returned
BothDone == Done /\ prev # None /\ prev.result # None

\* page i was given the same two files in both calls
SamePage(i) ==
    /\ i \in DOMAIN word_pages /\ i \in DOMAIN prev.word_pages
    /\ i \in DOMAIN superdoc_pages /\ i \in DOMAIN prev.superdoc_pages
    /\ word_pages[i] = prev.word_pages[i]
    /\ superdoc_pages[i] = prev.superdoc_pages[i]

SameInputs ==
    word_pages = prev.word_pages /\ superdoc_pages = prev.superdoc_pages

GridRows == 2
GridCols == 2
\* the most ink cells of the two pages of an input pair together
MaxInk == 3

Cells == (1..GridRows) \X (1..GridCols)

White == Z(1)
Black == Z(0)

\* black ink at the cells of S on a white page
Page(S) == [p \in Cells |-> IF p \in S THEN Black ELSE White]

\* the black cells of a page
InkCells(img) == {p \in DOMAIN img : img[p] = Black}

InputPages == {Page(S) : S \in {T \in SUBSET Cells : Cardinality(T) <= MaxInk}}

\* pairs of different pages, and every page next to its exact copy
InputPairs ==
    {pair \in InputPages \X InputPages :
        \/ Cardinality(InkCells(pair[1])) + Cardinality(InkCells(pair[2]))
               <= MaxInk
        \/ /\ pair[1] = pair[2]
           /\ 2 * Cardinality(InkCells(pair[1])) <= MaxInk + 1}

\* squared Euclidean distance between two cells
SqDist(p, q) ==
    (p[1] - q[1]) * (p[1] - q[1]) + (p[2] - q[2]) * (p[2] - q[2])

RECURSIVE Grow(_, _)
\* the cells of mask connected to S through horizontal and vertical steps
Grow(mask, S) ==
    LET T == S \cup {q \in mask : \E p \in S : SqDist(p, q) = 1}
    IN  IF T = S THEN S ELSE Grow(mask, T)

\* measure.label(mask, connectivity=1)
Components(mask) == {Grow(mask, {p}) : p \in mask}

\* morphology.remove_small_objects(mask, min_size)
remove_small_objects(mask, min_size) ==
    UNION {C \in Components(mask) : Cardinality(C) >= min_size}

\* the least and the greatest of a non-empty set of rationals
QMinOf(S) == CHOOSE x \in S : \A y \in S : QLe(x, y)
QMaxOf(S) == CHOOSE x \in S : \A y \in S : QLe(y, x)

\* filters.threshold_otsu: a level between the darkest and the lightest
\* grey of the image; the grey itself for an image of a single grey
threshold_otsu(gray) ==
    LET levels == {gray[p] : p \in Cells}
    IN  QDiv(QAdd(QMinOf(levels), QMaxOf(levels)), Z(2))

\* lines 127-135
_ink_mask(gray, min_size) ==
    LET thr == QMin(threshold_otsu(gray), Q(95, 100))
        ink == {p \in Cells : QLt(gray[p], thr)}
    IN  remove_small_objects(ink, min_size)

\* feature.canny: the darker cell of two adjacent cells of different grey
_edge_mask(gray, sigma) ==
    {p \in Cells : \E q \in Cells : SqDist(p, q) = 1 /\ QLt(gray[p], gray[q])}

\* a cell at distance tol_px or more from the mask
Near_beyond(p, mask, tol_px) ==
    /\ QLe(Z(0), tol_px)
    /\ \E q \in mask :
          SqDist(p, q) * tol_px.d * tol_px.d >= tol_px.n * tol_px.n

\* lines 147-150: distance_transform_edt(~mask)[p] <= tol_px
Near(p, mask, tol_px) ==
    /\ QLe(Z(0), tol_px)
    /\ \E q \in mask :
          SqDist(p, q) * tol_px.d * tol_px.d <= tol_px.n * tol_px.n

\* without the case of two empty masks
_f1_with_tolerance_one_check(a, b, tol_px) ==
    IF a = {} \/ b = {} THEN Z(0)
    ELSE LET recall == Q(Cardinality({p \in a : Near(p, b, tol_px)}),
                         Cardinality(a))
             precision == Q(Cardinality({p \in b : Near(p, a, tol_px)}),
                            Cardinality(b))
         IN  IF QAdd(precision, recall) = Z(0) THEN Z(0)
             ELSE QDiv(QMul(Z(2), QMul(precision, recall)),
                       QAdd(precision, recall))

\* lines 142-155
_f1_with_tolerance(a, b, tol_px) ==
    IF a = {} /\ b = {} THEN Z(1)
    ELSE IF a = {} \/ b = {} THEN Z(0)
    ELSE LET recall == Q(Cardinality({p \in a : Near(p, b, tol_px)}),
                         Cardinality(a))
             precision == Q(Cardinality({p \in b : Near(p, a, tol_px)}),
                            Cardinality(b))
         IN  IF QAdd(precision, recall) = Z(0) THEN Z(0)
             ELSE QDiv(QMul(Z(2), QMul(precision, recall)),
                       QAdd(precision, recall))

\* morphology.binary_dilation(mask, morphology.disk(radius))
binary_dilation(mask, radius) ==
    {p \in Cells : \E q \in mask : SqDist(p, q) <= radius * radius}

\* without the case of two empty masks
_edge_iou_no_empty_case(a, b, dilate) ==
    LET a2 == IF dilate > 0 THEN binary_dilation(a, dilate) ELSE a
        b2 == IF dilate > 0 THEN binary_dilation(b, dilate) ELSE b
        inter == Cardinality(a2 \cap b2)
        union == Cardinality(a2 \cup b2)
    IN  IF union # 0 THEN Q(inter, union) ELSE Z(0)

\* lines 158-167
_edge_iou(a, b, dilate) ==
    IF a = {} /\ b = {} THEN Z(1)
    ELSE LET a2 == IF dilate > 0 THEN binary_dilation(a, dilate) ELSE a
             b2 == IF dilate > 0 THEN binary_dilation(b, dilate) ELSE b
             inter == Cardinality(a2 \cap b2)
             union == Cardinality(a2 \cup b2)
         IN  IF union # 0 THEN Q(inter, union) ELSE Z(0)

\* max((p.area for p in props), default=0)
Largest(mask) ==
    IF mask = {} THEN 0
    ELSE LET areas == {Cardinality(C) : C \in Components(mask)}
         IN  CHOOSE n \in areas : \A m \in areas : m <= n

\* the largest mismatch area over the ink area, not capped
_blob_penalty_uncapped(mismatch, ink_union, min_size) ==
    IF remove_small_objects(mismatch, min_size) = {} \/ ink_union = {}
    THEN Z(0)
    ELSE Q(Largest(remove_small_objects(mismatch, min_size)),
           Cardinality(ink_union))

\* lines 170-177
_blob_penalty(mismatch, ink_union, min_size) ==
    IF remove_small_objects(mismatch, min_size) = {} \/ ink_union = {}
    THEN Z(0)
    ELSE QMin(Z(1), Q(Largest(remove_small_objects(mismatch, min_size)),
                      Cardinality(ink_union)))

\* color.deltaE_ciede2000 of two greys: 0 for equal greys, 100 for black
\* against white
deltaE_ciede2000(a, b) ==
    IF QLe(a, b) THEN QMul(Z(100), QSub(b, a)) ELSE QMul(Z(100), QSub(a, b))

RECURSIVE QSum(_, _)
\* the sum of f over the cells of S
QSum(f, S) ==
    IF S = {} THEN Z(0)
    ELSE LET p == CHOOSE q \in S : TRUE
         IN  QAdd(f[p], QSum(f, S \ {p}))

\* lines 180-186
_delta_e_mean(a_rgb, b_rgb, mask) ==
    IF mask = {} THEN Z(0)
    ELSE QDiv(QSum([p \in Cells |-> deltaE_ciede2000(a_rgb[p], b_rgb[p])],
                   mask),
              Z(Cardinality(mask)))

\* the greatest integer not above the rational q
Floor(q) == q.n \div q.d

\* the grey at row r, column c; cval outside the image (mode="constant")
Pixel(img, r, c, cval) == IF <<r, c>> \in DOMAIN img THEN img[<<r, c>>] ELSE cval

\* order=1: the grey interpolated between the four cells around (y, x)
Bilinear(img, y, x, cval) ==
    LET r == Floor(y)
        c == Floor(x)
        ty == QSub(y, Z(r))
        tx == QSub(x, Z(c))
        top == QAdd(QMul(QSub(Z(1), tx), Pixel(img, r, c, cval)),
                    QMul(tx, Pixel(img, r, c + 1, cval)))
        bottom == QAdd(QMul(QSub(Z(1), tx), Pixel(img, r + 1, c, cval)),
                       QMul(tx, Pixel(img, r + 1, c + 1, cval)))
    IN  QAdd(QMul(QSub(Z(1), ty), top), QMul(ty, bottom))

\* clip=True: the output kept within the range [lo, hi] of the input, the
\* fill value excepted
ClipWarp(v, lo, hi, cval) ==
    IF v = cval THEN v ELSE QMax(lo, QMin(hi, v))

\* transform.warp(img, tform, order=1, mode="constant", cval=cval) for a
\* tform that translates by (tx, ty): the output cell (r, c) is read from
\* the input at (r + ty, c + tx)
warp(img, ty, tx, cval) ==
    LET lo == QMinOf({img[p] : p \in DOMAIN img})
        hi == QMaxOf({img[p] : p \in DOMAIN img})
    IN  [p \in DOMAIN img |->
            ClipWarp(Bilinear(img, QAdd(Z(p[1]), ty), QAdd(Z(p[2]), tx),
                              cval),
                     lo, hi, cval)]

QAbs(q) == IF q.n < 0 THEN [n |-> -q.n, d |-> q.d] ELSE q
QNeg(q) == [n |-> -q.n, d |-> q.d]

\* an offset equal to the bound is left uncorrected as well
_align_images_strict_bound(mov_rgb, shift, cfg) ==
    IF QGe(QAbs(shift.x), cfg.max_shift_px)
           \/ QGe(QAbs(shift.y), cfg.max_shift_px)
    THEN mov_rgb
    ELSE warp(mov_rgb, QNeg(shift.y), QNeg(shift.x), White)

\* the border filled with black
_align_images_black_fill(mov_rgb, shift, cfg) ==
    IF QGt(QAbs(shift.x), cfg.max_shift_px)
           \/ QGt(QAbs(shift.y), cfg.max_shift_px)
    THEN mov_rgb
    ELSE warp(mov_rgb, QNeg(shift.y), QNeg(shift.x), Black)

\* lines 90-124; shift = [y, x] is what phase_cross_correlation(ref_gray,
\* mov_gray) returns
_align_images(mov_rgb, shift, cfg) ==
    IF QGt(QAbs(shift.x), cfg.max_shift_px)
           \/ QGt(QAbs(shift.y), cfg.max_shift_px)
    THEN mov_rgb
    ELSE warp(mov_rgb, QNeg(shift.y), QNeg(shift.x), White)

\* metrics.structural_similarity: 1 for two equal images, otherwise the
\* measured value
structural_similarity(a, b, measured) == IF a = b THEN Z(1) ELSE measured

\* registration.phase_cross_correlation: no shift between two equal images
\* that have content, otherwise the estimated one (the correlation of two
\* pages of a single grey has no peak)
phase_cross_correlation(ref, mov, estimated) ==
    IF ref = mov /\ Cardinality({ref[p] : p \in DOMAIN ref}) > 1
    THEN [y |-> Z(0), x |-> Z(0)]
    ELSE estimated

\* lines 241-271: the values _compute_metrics obtains for the pair before it
\* clamps and weighs them; lib.ssim_full and lib.ssim_small are the library's
\* SSIM of the pair at full and at reduced size
MeasuredPair(word_rgb, sd_rgb, cfg, lib) ==
    LET ink_word == _ink_mask(word_rgb, cfg.ink_min_size)
        ink_sd == _ink_mask(sd_rgb, cfg.ink_min_size)
        ink_union == ink_word \cup ink_sd
        mismatch == (ink_word \ ink_sd) \cup (ink_sd \ ink_word)
        ssim_full == structural_similarity(word_rgb, sd_rgb, lib.ssim_full)
    IN  Raw(ssim_full,
            IF QLt(cfg.downscale_factor, Z(1))
            THEN structural_similarity(word_rgb, sd_rgb, lib.ssim_small)
            ELSE ssim_full,
            _f1_with_tolerance(ink_word, ink_sd, cfg.ink_tol_px),
            _edge_iou(_edge_mask(word_rgb, cfg.edge_sigma),
                      _edge_mask(sd_rgb, cfg.edge_sigma), cfg.edge_dilate),
            _delta_e_mean(word_rgb, sd_rgb, ink_union),
            _blob_penalty(mismatch, ink_union, cfg.blob_min_size),
            Cardinality(ink_union))

\* lines 305-318: what _score_page measures on the pair; lib.shift is the
\* estimated offset, lib.strength the mean row displacement of the mapping,
\* lib.drift the values measured on the row-warped candidate
MeasuredPage(word_rgb, sd_rgb, cfg, lib) ==
    LET sd_aligned ==
            _align_images(sd_rgb,
                phase_cross_correlation(word_rgb, sd_rgb, lib.shift), cfg)
    IN  [strict |-> MeasuredPair(word_rgb, sd_aligned, cfg, lib),
         vmap |-> [ink |-> /\ _ink_mask(word_rgb, cfg.ink_min_size) # {}
                           /\ _ink_mask(sd_aligned, cfg.ink_min_size) # {},
                   strength |-> lib.strength],
         drift |-> lib.drift]

(***************************************************************************)
(* SpecPixels: one function of score.py applied to a pair of small pages.  *)
(***************************************************************************)
\* thresholds scaled down to the grid
PixelConfig ==
    [DefaultConfig EXCEPT !.max_shift_px = Z(1),
                          !.ink_min_size = 1,
                          !.ink_tol_px = Z(1),
                          !.blob_min_size = 1]

\* specks of one cell dropped, no tolerance, no dilation, no downscaling,
\* weights that do not sum to 1
PixelConfigCoarse ==
    [DefaultConfig EXCEPT !.max_shift_px = Z(1),
                          !.downscale_factor = Z(1),
                          !.edge_dilate = 0,
                          !.ink_min_size = 2,
                          !.ink_tol_px = Z(0),
                          !.blob_min_size = 2,
                          !.single_issue_min_gain = Z(0),
                          !.weights = ScoreWeights(Z(1), Z(0), Z(2),
                                                   Z(1), Z(2), Z(2))]

PixelConfigs == {PixelConfig, PixelConfigCoarse}

Shift(y, x) == [y |-> y, x |-> x]

\* offsets within, on and beyond the bound of the pixel configurations
ShiftSamples ==
    {Shift(Z(0), Z(0)), Shift(Z(1), Z(0)), Shift(Z(0), Z(-1)),
     Shift(Q(1, 2), Z(0)), Shift(Z(-1), Q(1, 2)),
     Shift(Q(11, 10), Z(0)), Shift(Z(0), Z(-2))}

\* the library's SSIM below 0 at full size and above 1 at reduced size
SsimOutOfRange == [ssim_full |-> Q(-1, 10), ssim_small |-> Q(101, 100)]

\* what the libraries and the row mapping return for a pair of pages
LibrarySamples ==
    {[shift |-> Shift(Z(1), Z(0)), ssim_full |-> Q(-1, 10),
      ssim_small |-> Q(101, 100), strength |-> Z(3), drift |-> RawPerfect],
     [shift |-> Shift(Q(1, 2), Z(0)), ssim_full |-> Q(3, 5),
      ssim_small |-> Q(4, 5), strength |-> Q(1, 2), drift |-> RawPoor]}

InitPixels ==
    /\ \E pair \in InputPairs : px_word = pair[1] /\ px_sd = pair[2]
    /\ px_config \in PixelConfigs
    /\ px_res = None
    /\ OnlyPixels

Returned(fn, args, value) ==
    /\ px_res = None
    /\ px_res' = [fn |-> fn, args |-> args, value |-> value]
    /\ UNCHANGED <<px_word, px_sd, px_config, outsidePixels>>

\* _f1_with_tolerance(a, b, config.ink_tol_px) on the two masks of black cells
f1_with_tolerance_call ==
    Returned("_f1_with_tolerance", None,
             _f1_with_tolerance(InkCells(px_word), InkCells(px_sd),
                                px_config.ink_tol_px))

\* _edge_iou(a, b, config.edge_dilate)
edge_iou_call ==
    Returned("_edge_iou", None,
             _edge_iou(InkCells(px_word), InkCells(px_sd),
                       px_config.edge_dilate))

\* _blob_penalty(mismatch, ink_union, config.blob_min_size) with the black
\* cells of the first page as mismatch and those of the second as ink_union
blob_penalty_call ==
    Returned("_blob_penalty", None,
             _blob_penalty(InkCells(px_word), InkCells(px_sd),
                           px_config.blob_min_size))

\* _delta_e_mean(a_rgb, b_rgb, mask) over the black cells of either page
delta_e_mean_call ==
    Returned("_delta_e_mean", None,
             _delta_e_mean(px_word, px_sd,
                           InkCells(px_word) \cup InkCells(px_sd)))

\* _compute_metrics(word_rgb, sd_rgb, config)
compute_metrics_pixels_call ==
    Returned("_compute_metrics", SsimOutOfRange,
             _compute_metrics(
                 MeasuredPair(px_word, px_sd, px_config, SsimOutOfRange),
                 px_config))

\* _score_page(word_rgb, sd_rgb, config)
score_page_pixels_call ==
    \E lib \in LibrarySamples :
        Returned("_score_page", lib,
                 _score_page(
                     MeasuredPage(px_word, px_sd, px_config, lib), px_config))

NextPixels ==
    \/ f1_with_tolerance_call
    \/ edge_iou_call
    \/ blob_penalty_call
    \/ delta_e_mean_call
    \/ compute_metrics_pixels_call
    \/ score_page_pixels_call

SpecPixels == InitPixels /\ [][NextPixels]_vars

\* the function fn has returned
Called(fn) == px_res # None /\ px_res.fn = fn

(***************************************************************************)
(* SpecAlign: _align_images applied to one candidate page, the estimated   *)
(* offset being an input.                                                  *)
(***************************************************************************)
\* a bound of one pixel and a bound of half a pixel
AlignConfigs ==
    {PixelConfig, [PixelConfig EXCEPT !.max_shift_px = Q(1, 2)]}

InitAlign ==
    /\ al_mov \in InputPages
    /\ al_config \in AlignConfigs
    /\ al_res = None
    /\ OnlyAlign

\* _align_images(ref_gray, mov_gray, mov_rgb, config)
align_images_call ==
    /\ al_res = None
    /\ \E shift \in ShiftSamples :
          al_res' = [shift |-> shift,
                     value |-> _align_images(al_mov, shift, al_config)]
    /\ UNCHANGED <<al_mov, al_config, outsideAlign>>

NextAlign == align_images_call

SpecAlign == InitAlign /\ [][NextAlign]_vars

Aligned == al_res # None

InUnit(x) == QLe(Z(0), x) /\ QLe(x, Z(1))

PixelWeightsValid ==
    /\ \A k \in DOMAIN px_config.weights : QLe(Z(0), px_config.weights[k])
    /\ QLt(Z(0), WeightTotal(px_config.weights))

\* C12: every value _compute_metrics returns is in range: ssim_full,
\* ssim_small, ink_f1, edge_iou and color_sim in [0, 1], blob_penalty in
\* [0, 1], delta_e >= 0, and the score in [0, 100] under non-negative weights
\* of positive total, also where _score_page calls it on the aligned
\* candidate; _blob_penalty stays in [0, 1] on any two masks.
C12_InRange ==
    /\ Called("_compute_metrics") =>
          /\ InUnit(px_res.value.ssim_full)
          /\ InUnit(px_res.value.ssim_small)
          /\ InUnit(px_res.value.ink_f1)
          /\ InUnit(px_res.value.edge_iou)
          /\ InUnit(px_res.value.color_sim)
          /\ InUnit(px_res.value.blob_penalty)
          /\ InUnit(QSub(Z(1), px_res.value.blob_penalty))
          /\ QLe(Z(0), px_res.value.delta_e)
          /\ PixelWeightsValid =>
                (QLe(Z(0), px_res.value.score)
                    /\ QLe(px_res.value.score, Z(100)))
    /\ Called("_score_page") =>
          /\ InUnit(px_res.value.ssim_full)
          /\ InUnit(px_res.value.ssim_small)
          /\ InUnit(px_res.value.ink_f1)
          /\ InUnit(px_res.value.edge_iou)
          /\ InUnit(px_res.value.color_sim)
          /\ InUnit(px_res.value.blob_penalty)
          /\ QLe(Z(0), px_res.value.delta_e)
          /\ PixelWeightsValid =>
                (QLe(Z(0), px_res.value.score_strict)
                    /\ QLe(px_res.value.score_strict, Z(100)))
    /\ Called("_blob_penalty") => InUnit(px_res.value)

\* the library's SSIM below 0 and above 1, the mean colour difference above
\* color_deltaE_max
C12_Witness ==
    /\ Called("_compute_metrics")
    /\ px_word # px_sd
    /\ QLt(px_res.args.ssim_full, Z(0)) /\ px_res.value.ssim_full = Z(0)
    /\ QLt(Z(1), px_res.args.ssim_small) /\ px_res.value.ssim_small = Z(1)
    /\ QLt(px_config.color_deltaE_max, px_res.value.delta_e)
    /\ px_res.value.color_sim = Z(0)
    /\ QLt(Z(0), px_res.value.blob_penalty)
    /\ QLt(Z(0), px_res.value.score) /\ QLt(px_res.value.score, Z(100))

\* C13: a page scored against an exact copy of itself gets ssim_full =
\* ssim_small = ink_f1 = edge_iou = color_sim = 1, blob_penalty = 0 and
\* score = score_strict = 100.
C13_Identity ==
    (Called("_score_page") /\ px_word = px_sd) =>
        /\ px_res.value.ssim_full = Z(1)
        /\ px_res.value.ssim_small = Z(1)
        /\ px_res.value.ink_f1 = Z(1)
        /\ px_res.value.edge_iou = Z(1)
        /\ px_res.value.color_sim = Z(1)
        /\ px_res.value.blob_penalty = Z(0)
        /\ px_res.value.score_strict = Z(100)
        /\ px_res.value.score = Z(100)

\* a page with ink against its copy, with the row mapping applied
C13_Witness ==
    /\ Called("_score_page")
    /\ px_word = px_sd
    /\ Cardinality(InkCells(px_word)) = 2
    /\ px_res.value.ink_area = 2
    /\ px_res.value.drift_applied
    /\ px_res.value.score = Z(100)

Blank == Page({})

\* C14: two blank white pages get ink_f1 = edge_iou = color_sim = 1,
\* blob_penalty = 0 (blob_sim = 1) and score 100, with drift_applied false,
\* drift_strength_px = 0 and no single-issue credit.
C14_BlankPages ==
    (Called("_score_page") /\ px_word = Blank /\ px_sd = Blank) =>
        /\ px_res.value.ink_f1 = Z(1)
        /\ px_res.value.edge_iou = Z(1)
        /\ px_res.value.color_sim = Z(1)
        /\ QSub(Z(1), px_res.value.blob_penalty) = Z(1)
        /\ px_res.value.score = Z(100)
        /\ ~px_res.value.drift_applied
        /\ px_res.value.drift_strength_px = Z(0)
        /\ ~px_res.value.single_issue_applied
        /\ px_res.value.score = px_res.value.score_strict

\* two blank pages for which the estimated offset is one pixel and the row
\* mapping would have had strength 3
C14_Witness ==
    /\ Called("_score_page")
    /\ px_word = Blank /\ px_sd = Blank
    /\ px_res.args.shift = Shift(Z(1), Z(0))
    /\ px_res.args.strength = Z(3)
    /\ px_res.value.ink_area = 0
    /\ px_res.value.score = Z(100)
    /\ ~px_res.value.drift_applied

\* C15: the sub-metrics return fixed values on degenerate inputs and never
\* divide by zero: _f1_with_tolerance is 1 on two empty masks and 0 when
\* exactly one is empty; _edge_iou is 1 on two empty masks and otherwise a
\* ratio over a non-empty union; _delta_e_mean is 0 (color_sim 1) over an
\* empty ink union; _blob_penalty is 0 when the filtered mismatch or the ink
\* union is empty.
C15_Degenerate ==
    LET a == InkCells(px_word)
        b == InkCells(px_sd)
    IN  /\ Called("_f1_with_tolerance") =>
              /\ (a = {} /\ b = {}) => px_res.value = Z(1)
              /\ ((a = {}) # (b = {})) => px_res.value = Z(0)
              /\ px_res.value.d > 0
        /\ Called("_edge_iou") =>
              /\ (a = {} /\ b = {}) => px_res.value = Z(1)
              /\ px_res.value.d > 0
              /\ InUnit(px_res.value)
        /\ Called("_delta_e_mean") =>
              /\ (a \cup b = {}) => px_res.value = Z(0)
              /\ px_res.value.d > 0
        /\ Called("_compute_metrics") =>
              (px_res.value.ink_area = 0 =>
                  (px_res.value.delta_e = Z(0)
                      /\ px_res.value.color_sim = Z(1)))
        /\ Called("_blob_penalty") =>
              /\ (remove_small_objects(a, px_config.blob_min_size) = {}
                      \/ b = {}) => px_res.value = Z(0)
              /\ px_res.value.d > 0

\* ink on one page only
C15_Witness ==
    /\ Called("_f1_with_tolerance")
    /\ InkCells(px_word) = {}
    /\ Cardinality(InkCells(px_sd)) = MaxInk
    /\ px_config.ink_tol_px = Z(1)
    /\ px_res.value = Z(0)

\* the offset is beyond the bound on an axis
BeyondBound(shift) ==
    \/ QGt(QAbs(shift.x), al_config.max_shift_px)
    \/ QGt(QAbs(shift.y), al_config.max_shift_px)

Whole(q) == q.d = 1

\* C16: when the estimated offset exceeds max_shift_px in absolute value on
\* an axis, _align_images returns the candidate unchanged; in every other
\* case, an offset equal to the bound included, it returns an image of the
\* same dimensions translated by the negated offset: each cell holds the
\* grey interpolated at its position minus the offset, white outside the
\* candidate.
C16_AlignBound ==
    Aligned =>
        IF BeyondBound(al_res.shift)
        THEN al_res.value = al_mov
        ELSE /\ DOMAIN al_res.value = DOMAIN al_mov
             /\ \A p \in DOMAIN al_mov :
                   /\ al_res.value[p] =
                         Bilinear(al_mov, QSub(Z(p[1]), al_res.shift.y),
                                  QSub(Z(p[2]), al_res.shift.x), White)
                   /\ (Whole(al_res.shift.y) /\ Whole(al_res.shift.x)) =>
                         al_res.value[p] =
                             Pixel(al_mov, p[1] - al_res.shift.y.n,
                                   p[2] - al_res.shift.x.n, White)

\* an offset of exactly max_shift_px that moves the ink
C16_Witness ==
    /\ Aligned
    /\ QAbs(al_res.shift.y) = al_config.max_shift_px
    /\ ~BeyondBound(al_res.shift)
    /\ al_res.value # al_mov
    /\ \E p \in DOMAIN al_mov : al_mov[p] = Black /\ al_res.value[p] = White
    /\ InkCells(al_res.value) # {}

\* the candidate mask after its cell p has moved to the free cell q
Moved(b, p, q) == (b \ {p}) \cup {q}

\* q is beyond the tolerance of every reference cell and farther from each
\* of them than p
Farther(a, p, q, tol_px) ==
    \A r \in a :
        /\ QGt(Z(SqDist(q, r)), QMul(tol_px, tol_px))
        /\ SqDist(q, r) > SqDist(p, r)

\* the cells of a that have a cell of b within Euclidean distance tol_px
Matched(a, b, tol_px) ==
    {r \in a : \E c \in b : QLe(Z(SqDist(r, c)), QMul(tol_px, tol_px))}

\* C18: for a non-empty reference mask, moving a candidate cell beyond
\* ink_tol_px of, and farther from, every reference cell never increases
\* _f1_with_tolerance; recall counts the reference cells that have a
\* candidate cell within Euclidean distance ink_tol_px, precision the
\* candidate cells that have a reference cell within it.
C18_MonotonicF1 ==
    Called("_f1_with_tolerance") =>
        LET a == InkCells(px_word)
            b == InkCells(px_sd)
            tol_px == px_config.ink_tol_px
        IN  (a # {} /\ b # {}) =>
              /\ \A p \in b, q \in Cells \ b :
                    Farther(a, p, q, tol_px) =>
                        QLe(_f1_with_tolerance(a, Moved(b, p, q), tol_px),
                            px_res.value)
              /\ LET recall == Q(Cardinality(Matched(a, b, tol_px)),
                                 Cardinality(a))
                     precision == Q(Cardinality(Matched(b, a, tol_px)),
                                    Cardinality(b))
                 IN  QMul(px_res.value, QAdd(precision, recall)) =
                         QMul(Z(2), QMul(precision, recall))

\* a matched candidate cell whose move drops the value
C18_Witness ==
    /\ Called("_f1_with_tolerance")
    /\ px_config.ink_tol_px = Z(1)
    /\ InkCells(px_word) # {}
    /\ QLt(Z(0), px_res.value)
    /\ \E p \in InkCells(px_sd), q \in Cells \ InkCells(px_sd) :
          /\ Farther(InkCells(px_word), p, q, px_config.ink_tol_px)
          /\ QLt(_f1_with_tolerance(InkCells(px_word),
                     Moved(InkCells(px_sd), p, q), px_config.ink_tol_px),
                 px_res.value)

(***************************************************************************)
(* The row mapping of _vertical_map_from_ink (lines 188-219) on the row    *)
(* projections of two ink masks.  A projection is the sequence of ink      *)
(* counts of the rows of a mask (word_ink.sum(axis=1)); rows are numbered  *)
(* from 0 in the mapping, as numpy numbers them.                           *)
(***************************************************************************)
\* the height H of the page, in rows
MapRows == 3
\* ink pixels in one row of a mask
RowInk == {0, 1, 2}

Projections == [1..MapRows -> RowInk]

QEq(a, b) == QLe(a, b) /\ QLe(b, a)

\* ndimage.gaussian_filter1d with the default mode "reflect" (the edge row
\* is repeated), its kernel cut to the three central taps
gaussian_filter1d(proj, sigma) ==
    LET n == Len(proj)
        at(i) == IF i < 1 THEN proj[1] ELSE IF i > n THEN proj[n] ELSE proj[i]
    IN  [i \in 1..n |->
            QAdd(QMul(Q(1, 2), at(i)),
                 QMul(Q(1, 4), QAdd(at(i - 1), at(i + 1))))]

\* lines 191-196
Projection(ink_rows, cfg) ==
    LET proj == [i \in 1..Len(ink_rows) |-> Z(ink_rows[i])]
    IN  IF QGt(cfg.drift_sigma, Z(0))
        THEN gaussian_filter1d(proj, cfg.drift_sigma)
        ELSE proj

RECURSIVE cumsum_at(_, _)
cumsum_at(proj, i) ==
    IF i = 0 THEN Z(0) ELSE QAdd(cumsum_at(proj, i - 1), proj[i])

\* the projection itself in place of its running sum
cumsum_not_accumulated(proj) == proj

\* np.cumsum
cumsum(proj) == [i \in 1..Len(proj) |-> cumsum_at(proj, i)]

\* lines 198-199: float(proj.sum()); the float32 sum and the last term of
\* the float32 running sum are rounded differently, by the factor `round`
Total(proj, round) == QMul(cumsum_at(proj, Len(proj)), round)

\* lines 203-204
Cdf(proj, total) ==
    LET c == cumsum(proj) IN [i \in 1..Len(proj) |-> QDiv(c[i], total)]

RECURSIVE SortedByValue(_, _)
SortedByValue(cdf, S) ==
    IF S = {} THEN <<>>
    ELSE LET i == CHOOSE i \in S : \A j \in S : QLe(cdf[i], cdf[j])
         IN  <<i>> \o SortedByValue(cdf, S \ {i})

\* np.unique(cdf, return_index=True): the distinct values in increasing
\* order, each with the index (from 0) of its first occurrence
unique(cdf) ==
    LET first == {i \in 1..Len(cdf) : \A j \in 1..(i - 1) : ~QEq(cdf[j], cdf[i])}
        order == SortedByValue(cdf, first)
    IN  [values |-> [k \in 1..Len(order) |-> cdf[order[k]]],
         index |-> [k \in 1..Len(order) |-> order[k] - 1]]

\* lines 206-212: the candidate CDF with its 0.0 and 1.0 endpoints
Endpoints(sd_cdf) ==
    LET u == unique(sd_cdf)
        lo == IF QGt(u.values[1], Z(0))
              THEN [values |-> <<Z(0)>> \o u.values, index |-> <<0>> \o u.index]
              ELSE u
    IN  IF QLt(lo.values[Len(lo.values)], Z(1))
        THEN [values |-> Append(lo.values, Z(1)),
              index |-> Append(lo.index, Len(sd_cdf) - 1)]
        ELSE lo

\* np.interp(x, xp, fp) for increasing xp: fp[0] left of xp[0], fp[-1]
\* from xp[-1] on, linear in between
interp(x, xp, fp) ==
    LET n == Len(xp)
    IN  IF QLt(x, xp[1]) THEN Z(fp[1])
        ELSE IF QGe(x, xp[n]) THEN Z(fp[n])
        ELSE LET k == CHOOSE k \in 1..(n - 1) :
                          QLe(xp[k], x) /\ QLt(x, xp[k + 1])
                 slope == QDiv(Z(fp[k + 1] - fp[k]), QSub(xp[k + 1], xp[k]))
             IN  QAdd(Z(fp[k]), QMul(slope, QSub(x, xp[k])))

\* np.clip
clip(x, lo, hi) == QMax(lo, QMin(x, hi))

\* lines 214-215
MapY(word_cdf, sd_cdf) ==
    LET e == Endpoints(sd_cdf)
    IN  [i \in 1..Len(word_cdf) |->
            clip(interp(word_cdf[i], e.values, e.index),
                 Z(0), Z(Len(sd_cdf) - 1))]

RECURSIVE SumAbsDisplacement(_, _)
SumAbsDisplacement(map_y, i) ==
    IF i = 0 THEN Z(0)
    ELSE QAdd(SumAbsDisplacement(map_y, i - 1),
              QAbs(QSub(map_y[i], Z(i - 1))))

\* line 216
DriftStrength(map_y) ==
    QDiv(SumAbsDisplacement(map_y, Len(map_y)), Z(Len(map_y)))

\* lines 188-219 on the two projections: the mapping, its strength and what
\* the gates of _vertical_map_from_ink return for them
RowMapping(word_rows, sd_rows, cfg, round) ==
    LET word_proj == Projection(word_rows, cfg)
        sd_proj == Projection(sd_rows, cfg)
        word_total == Total(word_proj, round.word)
        sd_total == Total(sd_proj, round.sd)
        ink == ~(QEq(word_total, Z(0)) \/ QEq(sd_total, Z(0)))
        map_y == IF ink
                 THEN MapY(Cdf(word_proj, word_total), Cdf(sd_proj, sd_total))
                 ELSE <<>>
        strength == IF ink THEN DriftStrength(map_y) ELSE Z(0)
        gate == _vertical_map_from_ink([ink |-> ink, strength |-> strength], cfg)
    IN  [returned |-> gate.map_y # NoMap,
         map_y |-> IF gate.map_y # NoMap THEN map_y ELSE <<>>,
         drift_strength |-> gate.drift_strength]

(***************************************************************************)
(* SpecRows: _vertical_map_from_ink applied to a pair of row projections.  *)
(***************************************************************************)
RowConfigs ==
    {DefaultConfig,
     [DefaultConfig EXCEPT !.drift_sigma = Z(0)],
     [DefaultConfig EXCEPT !.drift_sigma = Z(0), !.min_drift_px = Q(1, 3)]}

\* how the float32 total of each projection differs from the last term of
\* its running sum: not at all, or so that the reference CDF ends above 1.0
\* and the candidate CDF below it
Roundings ==
    {[word |-> Z(1), sd |-> Z(1)],
     [word |-> Q(99, 100), sd |-> Q(101, 100)]}

InitRows ==
    /\ vm_word \in Projections
    /\ vm_sd \in Projections
    /\ vm_config \in RowConfigs
    /\ vm_round \in Roundings
    /\ vm_res = None
    /\ OnlyRow

vertical_map_from_ink_call ==
    /\ vm_res = None
    /\ vm_res' = RowMapping(vm_word, vm_sd, vm_config, vm_round)
    /\ UNCHANGED <<vm_word, vm_sd, vm_config, vm_round, outsideRow>>

NextRows == vertical_map_from_ink_call

SpecRows == InitRows /\ [][NextRows]_vars

Mapped == vm_res # None

\* C21: a returned mapping is non-decreasing in the reference row and every
\* mapped row lies in [0, H-1]; the candidate CDF it interpolates over
\* starts at or below 0.0 and ends at or above 1.0
C21_MonotonicInRange ==
    (Mapped /\ vm_res.returned) =>
        LET H == Len(vm_word)
            sd_proj == Projection(vm_sd, vm_config)
            e == Endpoints(Cdf(sd_proj, Total(sd_proj, vm_round.sd)))
        IN  /\ Len(vm_res.map_y) = H
            /\ \A i \in 1..H :
                  /\ QLe(Z(0), vm_res.map_y[i])
                  /\ QLe(vm_res.map_y[i], Z(H - 1))
            /\ \A i \in 1..(H - 1) : QLe(vm_res.map_y[i], vm_res.map_y[i + 1])
            /\ QLe(e.values[1], Z(0))
            /\ QGe(e.values[Len(e.values)], Z(1))

\* a mapping is returned that moves a row by a fraction of a row, from a
\* candidate CDF that was given both endpoints
C21_Witness ==
    /\ Mapped /\ vm_res.returned
    /\ vm_round.sd = Q(101, 100)
    /\ vm_sd[1] > 0
    /\ \E i \in 1..Len(vm_word) : vm_res.map_y[i].d > 1

\* the same ink mask on both sides, summed without rounding differences
SameMasks ==
    /\ vm_word = vm_sd
    /\ \E i \in 1..Len(vm_word) : vm_word[i] > 0
    /\ vm_round.word = Z(1) /\ vm_round.sd = Z(1)

\* C22: identical reference and candidate ink masks map every row to
\* itself: the drift strength is 0 and no mapping is returned
C22_IdenticalMasksNoDrift ==
    (Mapped /\ SameMasks) =>
        /\ vm_res.drift_strength = Z(0)
        /\ ~vm_res.returned

(***************************************************************************)
(* superdoc/config.py: the configuration file ~/.superdoc-benchmark/       *)
(* config.json and the three calls that write it.  The file is absent,     *)
(* unreadable as JSON, a JSON value that is not an object, or a JSON       *)
(* object; an object is a function from its keys to JSON values.           *)
(***************************************************************************)
\* calls made on the file in one run
MaxCalls == 3

JsonNull == "null"
PyNone == "None"

ConfigKeys == {"superdoc_version", "superdoc_local_path"}
\* a key that config.py does not know
OtherKeys == {"theme"}

Versions == {"1.0.0", "2.0.0"}
\* the paths handed to set_superdoc_local_path, and what resolve() makes
\* of them
PathArgs == {"repo", "/opt/superdoc"}
resolve(path) == IF path = "repo" THEN "/home/user/repo" ELSE path

JsonValues(k) ==
    IF k = "superdoc_version" THEN {JsonNull} \cup Versions
    ELSE IF k = "superdoc_local_path"
         THEN {JsonNull} \cup {resolve(p) : p \in PathArgs}
         ELSE {"dark"}

JsonObjects ==
    UNION {{f \in [K -> UNION {JsonValues(k) : k \in K}] :
                \A k \in K : f[k] \in JsonValues(k)} :
           K \in SUBSET (ConfigKeys \cup OtherKeys)}

Absent == [state |-> "absent", data |-> <<>>]
Unreadable == [state |-> "corrupt", data |-> <<>>]
NotAnObject == [state |-> "array", data |-> <<>>]
Object(d) == [state |-> "object", data |-> d]

ConfigFiles == {Absent, Unreadable, NotAnObject} \cup {Object(d) : d \in JsonObjects}

\* json.loads / json.dumps on the values of an object
json_loads(d) == [k \in DOMAIN d |-> IF d[k] = JsonNull THEN PyNone ELSE d[k]]
json_dumps(d) == [k \in DOMAIN d |-> IF d[k] = PyNone THEN JsonNull ELSE d[k]]

\* lines 20-23 and 28-31
DefaultDict ==
    [k \in ConfigKeys |-> PyNone]

\* lines 11-31, for a file that is absent, unreadable or holds an object;
\* a JSON value that is not an object is returned as it is, and the item
\* assignments of the callers then raise (see Call)
get_config(file) ==
    IF file.state = "object" THEN json_loads(file.data) ELSE DefaultDict

\* config[key] = value
SetItem(d, key, value) ==
    [k \in DOMAIN d \cup {key} |-> IF k = key THEN value ELSE d[k]]

\* lines 34-41
save_config(d) == Object(json_dumps(d))

\* the local path is left as it was
set_superdoc_version_keeps_path(d, version) ==
    SetItem(d, "superdoc_version", version)

\* lines 74-75
set_superdoc_version_dict(d, version) ==
    SetItem(SetItem(d, "superdoc_version", version),
            "superdoc_local_path", PyNone)

\* lines 86-87
set_superdoc_local_path_dict(d, path) ==
    SetItem(SetItem(d, "superdoc_version", PyNone),
            "superdoc_local_path", resolve(path))

\* lines 94-95
clear_superdoc_config_dict(d) ==
    SetItem(SetItem(d, "superdoc_version", PyNone),
            "superdoc_local_path", PyNone)

InitConfig ==
    /\ cf_file \in ConfigFiles
    /\ cf_before = cf_file
    /\ cf_last = [op |-> "none", arg |-> ""]
    /\ cf_calls = 0
    /\ cf_error = NoError
    /\ OnlyConfig

\* one call: get_config, the item assignments, save_config.  Assigning
\* config["..."] on a JSON value that is not an object raises TypeError
\* before anything is saved.
Call(op, arg, d) ==
    /\ cf_calls < MaxCalls
    /\ cf_calls' = cf_calls + 1
    /\ cf_before' = cf_file
    /\ cf_last' = [op |-> op, arg |-> arg]
    /\ IF cf_file.state = "array"
       THEN cf_error' = "TypeError" /\ UNCHANGED cf_file
       ELSE cf_error' = NoError /\ cf_file' = save_config(d)
    /\ UNCHANGED outsideConfig

\* lines 67-76
set_superdoc_version ==
    \E version \in Versions :
        Call("set_superdoc_version", version,
             set_superdoc_version_dict(get_config(cf_file), version))

\* lines 79-88
set_superdoc_local_path ==
    \E path \in PathArgs :
        Call("set_superdoc_local_path", path,
             set_superdoc_local_path_dict(get_config(cf_file), path))

\* lines 91-96
clear_superdoc_config ==
    Call("clear_superdoc_config", "",
         clear_superdoc_config_dict(get_config(cf_file)))

NextConfig ==
    \/ set_superdoc_version
    \/ set_superdoc_local_path
    \/ clear_superdoc_config

SpecConfig == InitConfig /\ [][NextConfig]_vars

\* the stored value of a key, null when the object does not hold the key
Stored(file, k) ==
    IF k \in DOMAIN file.data THEN file.data[k] ELSE JsonNull

\* the keys of the stored object other than the two of config.py
Others(file) == DOMAIN file.data \ ConfigKeys

Saved == cf_calls >= 1 /\ cf_error = NoError

\* C23: after one or more calls at most one of the stored superdoc_version
\* and superdoc_local_path is non-null: a saved set_superdoc_version stores
\* the version and a null path, set_superdoc_local_path the resolved path
\* and a null version, clear_superdoc_config two nulls; every other key of
\* the object read keeps its value and no other key appears
C23_OneSourceAtMost ==
    /\ (cf_calls >= 1 /\ cf_file.state = "object") =>
          \/ Stored(cf_file, "superdoc_version") = JsonNull
          \/ Stored(cf_file, "superdoc_local_path") = JsonNull
    /\ Saved =>
          /\ cf_file.state = "object"
          /\ ConfigKeys \subseteq DOMAIN cf_file.data
          /\ cf_last.op = "set_superdoc_version" =>
                /\ cf_file.data["superdoc_version"] = cf_last.arg
                /\ cf_file.data["superdoc_local_path"] = JsonNull
          /\ cf_last.op = "set_superdoc_local_path" =>
                /\ cf_file.data["superdoc_version"] = JsonNull
                /\ cf_file.data["superdoc_local_path"] = resolve(cf_last.arg)
          /\ cf_last.op = "clear_superdoc_config" =>
                /\ cf_file.data["superdoc_version"] = JsonNull
                /\ cf_file.data["superdoc_local_path"] = JsonNull
          /\ Others(cf_file) = Others(cf_before)
          /\ \A k \in Others(cf_before) : cf_file.data[k] = cf_before.data[k]

\* a version is set on a file that held a local path and another key
C23_Witness ==
    /\ Saved
    /\ cf_last.op = "set_superdoc_version"
    /\ cf_before.state = "object"
    /\ Stored(cf_before, "superdoc_local_path") # JsonNull
    /\ Others(cf_before) # {}
    /\ cf_calls = MaxCalls

(***************************************************************************)
(* Further properties of _score_page (SpecPage).                           *)
(***************************************************************************)
\* the positions of the calls of f in the call trace of _score_page
PositionsOf(f) == {i \in DOMAIN sp_calls : sp_calls[i] = f}

\* the drift_ fields of the page record repeat its strict fields
DriftFieldsAreStrict ==
    /\ sp_out.score_drift = sp_out.score_strict
    /\ sp_out.drift_ssim_full = sp_out.ssim_full
    /\ sp_out.drift_ssim_small = sp_out.ssim_small
    /\ sp_out.drift_ink_f1 = sp_out.ink_f1
    /\ sp_out.drift_edge_iou = sp_out.edge_iou
    /\ sp_out.drift_color_sim = sp_out.color_sim
    /\ sp_out.drift_delta_e = sp_out.delta_e
    /\ sp_out.drift_blob_penalty = sp_out.blob_penalty

\* C24: a page record with drift_applied false has score_drift =
\* score_strict, every drift_ field equal to its strict field,
\* single_issue_applied false and score = score_strict, and _compute_metrics
\* was called once for it; with drift_applied true it was called twice, the
\* second time after the candidate was row-warped
C24_DriftPassIsStrictPass ==
    Scored =>
        IF sp_out.drift_applied
        THEN /\ Cardinality(PositionsOf("_compute_metrics")) = 2
             /\ \E i, j \in PositionsOf("_compute_metrics") :
                   \E k \in PositionsOf("_apply_vertical_map") :
                       i < k /\ k < j
        ELSE /\ DriftFieldsAreStrict
             /\ ~sp_out.single_issue_applied
             /\ sp_out.score = sp_out.score_strict
             /\ Cardinality(PositionsOf("_compute_metrics")) = 1

\* no drift pass for a page whose masks have ink and whose measured drift
\* pass would have scored differently
C24_Witness ==
    /\ Scored
    /\ ~sp_out.drift_applied
    /\ sp_in.vmap.ink
    /\ QGt(sp_in.vmap.strength, Z(0))
    /\ _compute_metrics(sp_in.drift, sp_config).score # sp_out.score_strict
    /\ QGt(sp_out.score_strict, Z(0))

(***************************************************************************)
(* Further properties of the row mapping (SpecRows).                       *)
(***************************************************************************)
\* the mask has ink in some row
HasInk(rows) == \E i \in 1..Len(rows) : rows[i] > 0

\* C25: a mapping is returned (drift_applied) exactly when both masks have
\* ink and the drift strength reaches min_drift_px, so a returned mapping
\* always has a strength of at least min_drift_px; without a mapping the
\* strength reported may still be non-zero, and it is 0 when a mask has no
\* ink
C25_DriftAppliedIff ==
    Mapped =>
        /\ vm_res.returned <=>
              /\ HasInk(vm_word) /\ HasInk(vm_sd)
              /\ QGe(vm_res.drift_strength, vm_config.min_drift_px)
        /\ vm_res.returned => QGe(vm_res.drift_strength, vm_config.min_drift_px)
        /\ ~(HasInk(vm_word) /\ HasInk(vm_sd)) => vm_res.drift_strength = Z(0)
        /\ QGe(vm_res.drift_strength, Z(0))

\* no mapping, yet a drift strength between 0 and min_drift_px is reported
C25_Witness ==
    /\ Mapped
    /\ ~vm_res.returned
    /\ QGt(vm_res.drift_strength, Z(0))
    /\ QLt(vm_res.drift_strength, vm_config.min_drift_px)
    /\ vm_word # vm_sd

\* the config has a non-negative minimum gain, cap and weights
NonNegativeConfig ==
    /\ QGe(sp_config.single_issue_min_gain, Z(0))
    /\ QGe(sp_config.single_issue_cap, Z(0))
    /\ \A i \in DOMAIN WeightKeys :
          QGe(sp_config.weights[WeightKeys[i]], Z(0))

\* C26: with a non-negative minimum gain, cap and weights every page has
\* 0 <= score_strict <= score <= max(score_strict, score_drift) <= 100
C26_ScoreBetweenPasses ==
    (Scored /\ NonNegativeConfig) =>
        /\ QLe(Z(0), sp_out.score_strict)
        /\ QLe(sp_out.score_strict, sp_out.score)
        /\ QLe(sp_out.score, QMax(sp_out.score_strict, sp_out.score_drift))
        /\ QLe(QMax(sp_out.score_strict, sp_out.score_drift), Z(100))

\* a credited page whose score lies strictly between the two passes
C26_Witness ==
    /\ Scored /\ NonNegativeConfig
    /\ sp_out.single_issue_applied
    /\ QLt(sp_out.score_strict, sp_out.score)
    /\ QLt(sp_out.score, sp_out.score_drift)

(***************************************************************************)
(* Further properties of score_document (Spec).                            *)
(***************************************************************************)
RECURSIVE FracLe(_, _, _, _)
\* an / ad <= bn / bd for ad, bd > 0, by whole parts and then remainders,
\* so that no product of numerators and denominators is formed
FracLe(an, ad, bn, bd) ==
    LET qa == an \div ad
        qb == bn \div bd
        ra == an % ad
        rb == bn % bd
    IN  IF qa # qb THEN qa < qb
        ELSE IF ra = 0 THEN TRUE
        ELSE IF rb = 0 THEN FALSE
        ELSE FracLe(bd, rb, ad, ra)

Le(a, b) == FracLe(a.n, a.d, b.n, b.d)
Lt(a, b) == ~Le(b, a)

\* min <= overall <= average
Ordered(mn, overall, avg) == Le(mn, overall) /\ Le(overall, avg)

InPercent(x) == Le(Z(0), x) /\ Le(x, Z(100))

\* the three aggregates of one variant, key being the page field averaged
Aggregates(key) ==
    IF key = "score"
    THEN <<result.min_score, result.overall_score, result.average_score>>
    ELSE IF key = "score_strict"
    THEN <<result.min_score_strict, result.overall_score_strict,
           result.average_score_strict>>
    ELSE <<result.min_score_drift, result.overall_score_drift,
           result.average_score_drift>>

Variants == {"score", "score_strict", "score_drift"}

\* C27: for each of the combined, strict and drift variants of a scored
\* document, min_score <= overall_score <= average_score; the three lie in
\* [0, 100] when the page scores do; for a single page all three equal the
\* page's score
C27_AggregatesOrdered ==
    Done =>
        \A key \in Variants :
            LET a == Aggregates(key)
            IN  /\ Ordered(a[1], a[2], a[3])
                /\ (\A i \in 1..Len(result.pages) :
                        InPercent(result.pages[i][key]))
                     => InPercent(a[1]) /\ InPercent(a[2]) /\ InPercent(a[3])
                /\ Len(result.pages) = 1 =>
                     /\ a[1] = result.pages[1][key]
                     /\ a[2] = result.pages[1][key]
                     /\ a[3] = result.pages[1][key]

\* two pages, the better one second, with minimum, overall and average
\* score all different in every variant
C27_Witness ==
    /\ Done
    /\ Len(result.pages) = 2
    /\ Lt(result.pages[1].score, result.pages[2].score)
    /\ \A key \in Variants :
          /\ Lt(Aggregates(key)[1], Aggregates(key)[2])
          /\ Lt(Aggregates(key)[2], Aggregates(key)[3])

\* the document was scored with the default config
DefaultConfigUsed == config = DefaultConfig

NoSingleIssue ==
    \A i \in 1..Len(result.pages) : ~result.pages[i].single_issue_applied

\* C28: under the default config the strict average, minimum and overall
\* score of a document are at most the combined ones, and equal to them
\* when no page has single_issue_applied
C28_StrictAtMostCombined ==
    (Done /\ DefaultConfigUsed) =>
        /\ Le(result.average_score_strict, result.average_score)
        /\ Le(result.min_score_strict, result.min_score)
        /\ Le(result.overall_score_strict, result.overall_score)
        /\ NoSingleIssue =>
              /\ result.average_score_strict = result.average_score
              /\ result.min_score_strict = result.min_score
              /\ result.overall_score_strict = result.overall_score

\* a credited page lifts the combined average and overall score above the
\* strict ones
C28_Witness ==
    /\ Done /\ DefaultConfigUsed
    /\ ~NoSingleIssue
    /\ Lt(result.average_score_strict, result.average_score)
    /\ Lt(result.overall_score_strict, result.overall_score)

(***************************************************************************)
(* baselines/r2_upload.py: upload_word_baseline_capture.  The bucket is    *)
(* seen through the objects under the baseline prefix; an object is its    *)
(* key and the capture that wrote it.  Each request to the bucket may      *)
(* fail, and delete_objects may delete some keys of a batch and report     *)
(* errors for the others.                                                  *)
(***************************************************************************)
\* page images of one capture
MaxCapturePages == 2
\* keys per delete_objects request
DeleteBatch == 1000

MANIFEST_NAME == [name |-> "manifest.json", n |-> 0]
PageName(k) == [name |-> "page.png", n |-> k]

Obj(key, capture) == [key |-> key, capture |-> capture]

\* all the objects a capture of n pages puts under the prefix
Capture(capture, n) ==
    {Obj(PageName(k), capture) : k \in 1..n} \cup
    {Obj(MANIFEST_NAME, capture)}

\* the pages of a capture of n pages whose upload stopped before the
\* manifest
PagesOnly(capture, n) == {Obj(PageName(k), capture) : k \in 1..n}

Keys(store) == {o.key : o \in store}

\* a key sorts before another as list_objects_v2 returns them:
\* "manifest.json" before "page_*.png", pages by number
KeyBefore(a, b) ==
    \/ a.name = "manifest.json" /\ b.name # "manifest.json"
    \/ a.name = b.name /\ a.n < b.n

RECURSIVE SortedKeys(_)
SortedKeys(K) ==
    IF K = {} THEN <<>>
    ELSE LET k == CHOOSE k \in K : \A o \in K \ {k} : KeyBefore(k, o)
         IN  <<k>> \o SortedKeys(K \ {k})

\* lines 221-235
_list_objects(store) == SortedKeys(Keys(store))

\* lines 246-256 and 336-354
baseline_exists(store) == MANIFEST_NAME \in Keys(store)

\* client.put_object: the object replaces any object of the same key
put_object(store, key, capture) ==
    {o \in store : o.key # key} \cup {Obj(key, capture)}

\* client.delete_objects for a batch of which the keys in failed are
\* reported as errors
delete_objects(store, batch, failed) ==
    {o \in store : o.key \notin (batch \ failed)}

\* lines 357-365: the batch that starts after the first done keys
Batch(keys, done) ==
    {keys[j] : j \in (done + 1)..Min2(Len(keys), done + DeleteBatch)}

InitUpload ==
    /\ r2_store \in
          {{}} \cup {Capture("old", n) : n \in 1..MaxCapturePages}
               \cup {PagesOnly("old", n) : n \in 1..MaxCapturePages}
    /\ r2_pages \in 0..MaxCapturePages
    /\ r2_dry_run \in BOOLEAN
    /\ r2_pc = "call"
    /\ r2_existing = <<>>
    /\ r2_i = 0
    /\ r2_ops = <<>>
    /\ r2_error = NoError
    /\ OnlyUpload

UploadRaise(msg) ==
    /\ r2_pc' = "raised"
    /\ r2_error' = msg

\* lines 443-470: the page files are collected, the prefix is listed, and
\* a dry run returns its summary
upload_list ==
    /\ r2_pc = "call"
    /\ IF r2_pages = 0
       THEN /\ UploadRaise("No Word pages found")
            /\ UNCHANGED r2_existing
       ELSE \/ /\ r2_existing' = _list_objects(r2_store)
               /\ r2_pc' = IF r2_dry_run THEN "done"
                           ELSE IF r2_existing' # <<>> THEN "delete"
                           ELSE "pages"
               /\ UNCHANGED r2_error
            \/ /\ UploadRaise("ClientError")
               /\ UNCHANGED r2_existing
    /\ UNCHANGED <<r2_store, r2_pages, r2_dry_run, r2_i, r2_ops, outsideUpload>>

\* lines 368-381 (called from line 472): one delete_objects request
upload_delete ==
    /\ r2_pc = "delete"
    /\ LET batch == Batch(r2_existing, r2_i)
       IN  \/ \E failed \in SUBSET batch :
                 /\ r2_store' = delete_objects(r2_store, batch, failed)
                 /\ r2_ops' = r2_ops \o
                       [j \in 1..Cardinality(batch \ failed) |-> "delete"]
                 /\ IF failed # {}
                    THEN /\ UploadRaise("Failed to delete existing objects")
                         /\ UNCHANGED r2_i
                    ELSE /\ r2_i' = r2_i + Cardinality(batch)
                         /\ r2_pc' = IF r2_i' >= Len(r2_existing)
                                     THEN "pages" ELSE "delete"
                         /\ UNCHANGED r2_error
           \/ /\ UploadRaise("ClientError")
              /\ UNCHANGED <<r2_store, r2_ops, r2_i>>
    /\ UNCHANGED <<r2_pages, r2_dry_run, r2_existing, outsideUpload>>

\* lines 474-480: one page image is put
upload_put_page ==
    /\ r2_pc = "pages"
    /\ \E k \in 1..r2_pages :
          /\ k = Cardinality({j \in DOMAIN r2_ops : r2_ops[j] = "put_page"}) + 1
          /\ \/ /\ r2_store' = put_object(r2_store, PageName(k), "new")
                /\ r2_ops' = Append(r2_ops, "put_page")
                /\ r2_pc' = IF k = r2_pages THEN "manifest" ELSE "pages"
                /\ UNCHANGED r2_error
             \/ /\ UploadRaise("ClientError")
                /\ UNCHANGED <<r2_store, r2_ops>>
    /\ UNCHANGED <<r2_pages, r2_dry_run, r2_existing, r2_i, outsideUpload>>

\* lines 482-497: the manifest is built and put, and the summary returned
upload_put_manifest ==
    /\ r2_pc = "manifest"
    /\ \/ /\ r2_store' = put_object(r2_store, MANIFEST_NAME, "new")
          /\ r2_ops' = Append(r2_ops, "put_manifest")
          /\ r2_pc' = "done"
          /\ UNCHANGED r2_error
       \/ /\ UploadRaise("ClientError")
          /\ UNCHANGED <<r2_store, r2_ops>>
    /\ UNCHANGED <<r2_pages, r2_dry_run, r2_existing, r2_i, outsideUpload>>

NextUpload ==
    \/ upload_list
    \/ upload_delete
    \/ upload_put_page
    \/ upload_put_manifest

SpecUpload == InitUpload /\ [][NextUpload]_vars

\* the pages that the manifest found under the prefix belongs to are all
\* there, written by the same capture
CompleteCapture(store) ==
    \E c \in {"old", "new"} :
        \E n \in 1..MaxCapturePages : Capture(c, n) \subseteq store

\* every "delete" of the log comes before every put, every "put_page"
\* before "put_manifest", which is the last entry
DeletesThenPagesThenManifest ==
    \A i, j \in DOMAIN r2_ops :
        /\ (r2_ops[i] = "delete" /\ r2_ops[j] # "delete") => i < j
        /\ (r2_ops[i] = "put_manifest") => i = Len(r2_ops)

\* C29: in a real upload every object found under the prefix is deleted
\* before anything is put, the page images are put before manifest.json
\* and manifest.json is put last, so that the manifest of the new capture
\* is never under the prefix without all its pages, and whenever
\* baseline_exists finds a manifest the capture it belongs to is complete;
\* a dry run puts and deletes nothing
C29_ManifestOnlyWhenComplete ==
    /\ DeletesThenPagesThenManifest
    /\ (\E o \in r2_store : o.capture = "new") =>
          \A o \in r2_store : o.capture = "new"
    /\ Obj(MANIFEST_NAME, "new") \in r2_store =>
          Capture("new", r2_pages) \subseteq r2_store
    /\ baseline_exists(r2_store) => CompleteCapture(r2_store)
    /\ r2_dry_run => r2_ops = <<>>

(***************************************************************************)
(* main.py: the report generation of run_compare (lines 407-497).  A       *)
(* document is its position in report_entries; rc_outcome says whether     *)
(* generate_reports returns or raises for it.  In the pool path a future   *)
(* is pending, running in a worker, finished, or collected by the loop     *)
(* over as_completed.                                                      *)
(***************************************************************************)
\* documents of one run
MaxDocs == 3

Outcomes == {"returns", "raises"}
CpuCounts == {1, 2, 4}

Entries == DOMAIN rc_outcome

\* line 431
max_workers ==
    IF Len(rc_outcome) > 1
    THEN Min2(Len(rc_outcome), Max2(1, rc_cpu_count - 1))
    ELSE 1

InitCompare ==
    /\ rc_outcome \in UNION {[1..n -> Outcomes] : n \in 1..MaxDocs}
    /\ rc_cpu_count \in CpuCounts
    /\ rc_pc = "start"
    /\ rc_i = 0
    /\ rc_future = [d \in DOMAIN rc_outcome |-> "none"]
    /\ report_results = <<>>
    /\ report_errors = <<>>
    /\ rc_progress = 0
    /\ OnlyCompare

\* lines 443 and 474-486: the path is chosen; the pool path submits one
\* task per entry
compare_start ==
    /\ rc_pc = "start"
    /\ IF max_workers = 1
       THEN /\ rc_pc' = "sequential"
            /\ UNCHANGED rc_future
       ELSE /\ rc_pc' = "pool"
            /\ rc_future' = [d \in Entries |-> "pending"]
    /\ UNCHANGED <<rc_outcome, rc_cpu_count, rc_i, report_results,
                   report_errors, rc_progress, outsideCompare>>

\* lines 491-497 and 451-467: the result or the exception of document d is
\* recorded and the progress bar advanced
Record(d) ==
    /\ IF rc_outcome[d] = "returns"
       THEN /\ report_results' = Append(report_results, d)
            /\ UNCHANGED report_errors
       ELSE /\ report_errors' = Append(report_errors, d)
            /\ UNCHANGED report_results
    /\ rc_progress' = rc_progress + 1

\* lines 445-467: one turn of the sequential loop
compare_sequential ==
    /\ rc_pc = "sequential"
    /\ rc_i < Len(rc_outcome)
    /\ Record(rc_i + 1)
    /\ rc_i' = rc_i + 1
    /\ UNCHANGED <<rc_outcome, rc_cpu_count, rc_pc, rc_future,
                   outsideCompare>>

\* a worker of the pool takes a pending task
worker_start ==
    /\ rc_pc = "pool"
    /\ Cardinality({d \in Entries : rc_future[d] = "running"}) < max_workers
    /\ \E d \in Entries :
          /\ rc_future[d] = "pending"
          /\ rc_future' = [rc_future EXCEPT ![d] = "running"]
    /\ UNCHANGED <<rc_outcome, rc_cpu_count, rc_pc, rc_i, report_results,
                   report_errors, rc_progress, outsideCompare>>

\* lines 279-298: _generate_report_task returns or raises in its worker
worker_finish ==
    /\ rc_pc = "pool"
    /\ \E d \in Entries :
          /\ rc_future[d] = "running"
          /\ rc_future' = [rc_future EXCEPT ![d] = "finished"]
    /\ UNCHANGED <<rc_outcome, rc_cpu_count, rc_pc, rc_i, report_results,
                   report_errors, rc_progress, outsideCompare>>

\* the loop over as_completed ends at the first exception
compare_collect_abort_on_error ==
    /\ rc_pc = "pool"
    /\ \E d \in Entries :
          /\ rc_future[d] = "finished"
          /\ rc_future' = [rc_future EXCEPT ![d] = "collected"]
          /\ Record(d)
          /\ rc_pc' = IF rc_outcome[d] = "raises" THEN "done" ELSE rc_pc
    /\ UNCHANGED <<rc_outcome, rc_cpu_count, rc_i, outsideCompare>>

\* lines 489-497: as_completed yields a finished future
compare_collect ==
    /\ rc_pc = "pool"
    /\ \E d \in Entries :
          /\ rc_future[d] = "finished"
          /\ rc_future' = [rc_future EXCEPT ![d] = "collected"]
          /\ Record(d)
    /\ UNCHANGED <<rc_outcome, rc_cpu_count, rc_pc, rc_i, outsideCompare>>

\* the loop of either path is over
compare_end ==
    /\ \/ rc_pc = "sequential" /\ rc_i = Len(rc_outcome)
       \/ rc_pc = "pool" /\ \A d \in Entries : rc_future[d] = "collected"
    /\ rc_pc' = "done"
    /\ UNCHANGED <<rc_outcome, rc_cpu_count, rc_i, rc_future, report_results,
                   report_errors, rc_progress, outsideCompare>>

NextCompare ==
    \/ compare_start
    \/ compare_sequential
    \/ worker_start
    \/ worker_finish
    \/ compare_collect
    \/ compare_end

SpecCompare == InitCompare /\ [][NextCompare]_vars

Range(seq) == {seq[i] : i \in DOMAIN seq}

ReportsDone == rc_pc = "done"

\* C30: on both paths and in every completion order, a document is never
\* recorded twice or in both lists, the progress counter equals the number
\* of documents recorded, results hold only documents whose report
\* returned and errors only those whose report raised; the run cannot stop
\* before the end, and at the end every document is in exactly one list,
\* so len(report_results) + len(report_errors) and the progress counter
\* equal the number of documents submitted
C30_EveryDocumentRecordedOnce ==
    /\ Len(report_results) = Cardinality(Range(report_results))
    /\ Len(report_errors) = Cardinality(Range(report_errors))
    /\ Range(report_results) \cap Range(report_errors) = {}
    /\ rc_progress = Len(report_results) + Len(report_errors)
    /\ \A d \in Range(report_results) : rc_outcome[d] = "returns"
    /\ \A d \in Range(report_errors) : rc_outcome[d] = "raises"
    /\ ReportsDone \/ ENABLED NextCompare
    /\ ReportsDone =>
          /\ Range(report_results) \cup Range(report_errors) = Entries
          /\ Len(report_results) + Len(report_errors) = Len(rc_outcome)
          /\ rc_progress = Len(rc_outcome)

\* the pool path ends with the failure of the first document recorded
\* before the results of the later ones
C30_Witness ==
    /\ ReportsDone
    /\ max_workers > 1
    /\ Len(rc_outcome) = MaxDocs
    /\ report_errors = <<1>>
    /\ Len(report_results) >= 2
    /\ report_results[1] > report_results[2]

====
